---- MODULE Spec2Model ----
(***************************************************************************)
(* EnigmaCode: the loader validation service (backend route               *)
(* GET /api/loader/validate with the Key and Analytics models) and the    *)
(* client loader (loader-template.lua), the loader generator with the     *)
(* payload it serves, and the obfuscation engine (obfuscator.js) with a   *)
(* small interpreter for the Lua that flattenControlFlow emits.           *)
(*                                                                         *)
(* Validation requests are modelled at the granularity of the handler's   *)
(* awaits: the code between two awaits runs atomically on the node event  *)
(* loop, and concurrent requests interleave at the awaits.  Fields that   *)
(* are written and never read by the modelled code are left out: the      *)
(* User-Agent header, usage.lastUsed / lastUserAgent / lastIP, the        *)
(* userId / ip / timestamp of a history entry, stats.lastActivation.      *)
(***************************************************************************)
EXTENDS Integers, Sequences, FiniteSets, TLC

(* ---------------- bounds of the model ---------------- *)
NumReqs == 2          \* validation requests in one behaviour
MaxTime == 1          \* the clock runs 0..MaxTime
MaxAdminOps == 1      \* owner operations (ban / status update) in one behaviour
MaxLimit == 1         \* largest restrictions.maxActivations given at creation
MaxInvocations == 2   \* calls of validateAndExecute on one loader instance
MaxChecks == 2        \* iterations of the monitoring loop
MaxCodeLen == 4       \* characters of a response's code
MaxBlockLen == 2
MaxSteps == 30
MaxServedLen == 3     \* characters of a deployment's obfuscated code
MaxLiteralLen == 2    \* characters of a string literal
MaxCalls == 2         \* calls of obfuscate in one behaviour
MaxRecorded == 3      \* calls of recordActivation in one behaviour
MaxVMLines == 2       \* lines of a unit given to virtualize

(* ---------------- values ---------------- *)
Null == "null"
NoDate == -1                        \* a Date field holding null
NoLimit == 0                        \* restrictions.maxActivations: null (falsy)
HistoryCap == 100                   \* activationHistory keeps the last 100
TAMPER == "TAMPER_DETECTED"
ObfuscatedCode == "CODE"            \* project.obfuscatedCode

Reqs == 1..NumReqs
ProjectIds == {"P1", "P2"}          \* P1 active, P2 inactive
KeyIds == {"K1"}
UserIds == {"U1"}
IPs == {"IP1", "IP2"}

\* header values a client can send; "" is an absent header
HdrProject == {"", "P0", "P1", "P2"}
HdrKey == {"", "ek_1", TAMPER}
HdrUser == {""} \cup UserIds

VARIABLES
  keys,        \* Key collection: keyId -> document
  projects,    \* Project collection: projectId -> document
  analytics,   \* Analytics collection, in insertion order
  req,         \* per request: handler position (pc), headers (hdr), the project
               \* and key documents as loaded (project, key, read) at time at,
               \* the in-memory key document (doc), the branch taken (pending)
               \* and the response (resp)
  now,         \* the clock (new Date())
  adminOps     \* owner operations performed so far

srvVars == <<keys, projects, analytics, req, now, adminOps>>

VARIABLES
  lenv,                \* the loader's execution environment
  EXECUTION_COUNT,     \* the loader's execution counter
  ENVIRONMENT_CHECKS,  \* fingerprints the monitor has kept
  inv,                 \* per invocation of validateAndExecute: position and result
  mon,                 \* the monitoring coroutine
  hs,                  \* per caller: the frame of its makeSecureRequest call
  pay                  \* a response handed to the payload steps of validateAndExecute

ldrVars == <<lenv, EXECUTION_COUNT, ENVIRONMENT_CHECKS, inv, mon, hs, pay>>

VARIABLES
  gen,                 \* one call of LoaderGenerator.generateLoader
  obf,                 \* one call of LuaObfuscator.obfuscate
  rec,                 \* a key document in memory, and the entries recorded on it
  trial                \* the loader loaded and invoked once in one environment
                       \* after the other, with what each invocation returned

toolVars == <<gen, obf, rec, trial>>
vars == <<srvVars, ldrVars, toolVars>>

(* ---------------- Key model (models/Key.js) ---------------- *)

\* keySchema.methods.isExpired
isExpired(key, t) ==
  IF key.expiresAt = NoDate THEN FALSE ELSE t > key.expiresAt

\* variant of isValid that looks at the expiry date before the status
isValid_expiryFirst(key, t) ==
  IF isExpired(key, t) THEN [ok |-> FALSE, status |-> "expired"]
  ELSE IF key.status # "active" THEN [ok |-> FALSE, status |-> key.status]
  ELSE IF key.isBanned THEN [ok |-> FALSE, status |-> key.status]
  ELSE [ok |-> TRUE, status |-> key.status]

\* keySchema.methods.isValid: the verdict and the status the call leaves in
\* the document (an expired active key is moved to 'expired')
isValid(key, t) ==
  IF key.status # "active" THEN [ok |-> FALSE, status |-> key.status]
  ELSE IF key.isBanned THEN [ok |-> FALSE, status |-> key.status]
  ELSE IF isExpired(key, t) THEN [ok |-> FALSE, status |-> "expired"]
  ELSE [ok |-> TRUE, status |-> key.status]

\* variant of slice(-n) that keeps the first n
SliceLast_first(s, n) ==
  IF Len(s) <= n THEN s ELSE SubSeq(s, 1, n)

\* Array.prototype.slice(-n)
SliceLast(s, n) ==
  IF Len(s) <= n THEN s ELSE SubSeq(s, Len(s) - n + 1, Len(s))

\* keySchema.methods.recordActivation on the in-memory document
recordActivation(key, ip, success, errorCode, t) ==
  LET pushed == Append(key.history, [success |-> success, errorCode |-> errorCode])
  IN [key EXCEPT !.totalActivations = key.totalActivations + 1,
                 !.history = IF Len(pushed) > HistoryCap
                             THEN SliceLast(pushed, HistoryCap) ELSE pushed]

\* keySchema.methods.ban
ban(key) == [key EXCEPT !.status = "banned", !.isBanned = TRUE]

\* document.save(): only the modified paths are written.  doc is the
\* in-memory document, read the document as it was loaded, db the stored one.
saveKey(db, doc, read) ==
  [db EXCEPT !.totalActivations = doc.totalActivations,
             !.status = IF doc.status # read.status THEN doc.status ELSE db.status,
             !.history = IF Len(read.history) + 1 > HistoryCap
                         THEN doc.history
                         ELSE Append(db.history, doc.history[Len(doc.history)])]

(* ---------------- Analytics model (models/Analytics.js) ---------------- *)

\* the second argument of logEvent as the call sites pass it
DataObject(errorCode) == [kind |-> "object", errorCode |-> errorCode]
DataObjectId == [kind |-> "objectId", errorCode |-> Null]   \* key.owner
DataNull == [kind |-> "null", errorCode |-> Null]

\* logEvent(type, data = {}): reading data.userId throws when data is null
logEventThrows(data) == data.kind = "null"

\* the document logEvent creates; r tags the request whose handler called it
logEvent(type, data, r) ==
  [type |-> type,
   errorCode |-> IF data.kind = "object" THEN data.errorCode ELSE Null,
   req |-> r]

(* ---------------- responses ---------------- *)
NoBody == [none |-> TRUE]

\* variant of the rejection body that echoes the project's code
RejectBody_withCode(msg) ==
  [valid |-> FALSE, error |-> msg, code |-> ObfuscatedCode]

\* res.status(..).json({ valid: false, error })
RejectBody(msg) == [valid |-> FALSE, error |-> msg]

\* res.json({ valid: true, code, keyInfo })
SuccessBody(key) ==
  [valid |-> TRUE, code |-> ObfuscatedCode,
   keyInfo |-> [expiresAt |-> key.expiresAt, activations |-> key.totalActivations]]

(* ---------------- the validation handler (routes/loader.js) ---------------- *)

NoHeaders == [projectId |-> "", userKey |-> "", userId |-> "", ip |-> "IP1"]
NoProject == [id |-> Null, totalActivations |-> 0]
NoKey ==
  [keyString |-> "", project |-> Null, status |-> "active", isBanned |-> FALSE,
   expiresAt |-> NoDate, linkedUserId |-> "", allowedIPs |-> {},
   maxActivations |-> NoLimit, totalActivations |-> 0, history |-> <<>>]
NoPending == [branch |-> Null, status |-> 0, error |-> "", type |-> Null, data |-> DataNull]
NoResp == [status |-> 0, body |-> NoBody]

IdleReq ==
  [pc |-> "idle", hdr |-> NoHeaders, project |-> NoProject, key |-> Null,
   read |-> NoKey, at |-> NoDate, doc |-> NoKey, pending |-> NoPending, resp |-> NoResp]

\* Project.findOne({ projectId })
findProject(pid) == IF pid \in DOMAIN projects THEN pid ELSE Null

\* Key.findOne({ keyString, project })
findKey(ukey, pid) ==
  LET hits == {k \in KeyIds : keys[k].keyString = ukey /\ keys[k].project = pid}
  IN IF hits = {} THEN Null ELSE CHOOSE k \in hits : TRUE

\* key.linkedUserId && key.linkedUserId !== userId
identityMismatch(key, hdr) ==
  key.linkedUserId # "" /\ key.linkedUserId # hdr.userId

\* allowedIPs non-empty, ip not listed, and the presented key is the sentinel
tamperSignal(key, hdr) ==
  key.allowedIPs # {} /\ hdr.ip \notin key.allowedIPs /\ hdr.userKey = TAMPER

\* variant of the limit test that lets the counter pass the limit by one
limitReached_strict(key) ==
  key.maxActivations # NoLimit /\ key.totalActivations > key.maxActivations

\* key.restrictions.maxActivations && totalActivations >= maxActivations
limitReached(key) ==
  key.maxActivations # NoLimit /\ key.totalActivations >= key.maxActivations

\* the rejection of a key that is not valid: banned, expired or other
invalidKey(k1, hdr, t) ==
  LET code == IF k1.status = "banned" THEN "KEY_BANNED"
              ELSE IF isExpired(k1, t) THEN "KEY_EXPIRED" ELSE "KEY_INVALID"
      msg == IF k1.status = "banned" THEN "Key is banned"
             ELSE IF isExpired(k1, t) THEN "Key has expired" ELSE "Key is invalid"
  IN [branch |-> "invalid", status |-> 401, error |-> msg, type |-> "error",
      data |-> DataObjectId, doc |-> recordActivation(k1, hdr.ip, FALSE, code, t)]

\* the rejection of a key presented by another caller than the linked one
mismatchedKey(k1, hdr, t) ==
  [branch |-> "mismatch", status |-> 401, error |-> "Key not authorized for this user",
   type |-> "error", data |-> DataObject("USER_ID_MISMATCH"),
   doc |-> recordActivation(k1, hdr.ip, FALSE, "USER_ID_MISMATCH", t)]

\* the tamper branch, the limit branch and the success branch
afterIdentity(k1, hdr, t) ==
  IF tamperSignal(k1, hdr)
  THEN [branch |-> "tamper", status |-> 401, error |-> "Access denied",
        type |-> "tamper", data |-> DataNull, doc |-> k1]
  ELSE IF limitReached(k1)
  THEN [branch |-> "limit", status |-> 401, error |-> "Activation limit reached",
        type |-> "error", data |-> DataObjectId,
        doc |-> recordActivation(k1, hdr.ip, FALSE, "MAX_ACTIVATIONS_REACHED", t)]
  ELSE [branch |-> "success", status |-> 200, error |-> "", type |-> "activation",
        data |-> DataObjectId, doc |-> recordActivation(k1, hdr.ip, TRUE, Null, t)]

\* variant of the checks with the caller binding tested before the key's validity
checkKey_identityFirst(key, hdr, t) ==
  LET v == isValid(key, t)
      k1 == [key EXCEPT !.status = v.status]
  IN IF identityMismatch(key, hdr) THEN mismatchedKey(key, hdr, t)
     ELSE IF ~v.ok THEN invalidKey(k1, hdr, t)
     ELSE afterIdentity(k1, hdr, t)

\* the synchronous checks that follow a successful Key.findOne, in the
\* handler's order, up to the await each branch stops at; doc is the
\* in-memory key document at that await
checkKey(key, hdr, t) ==
  LET v == isValid(key, t)
      k1 == [key EXCEPT !.status = v.status]
  IN IF ~v.ok THEN invalidKey(k1, hdr, t)
     ELSE IF identityMismatch(k1, hdr) THEN mismatchedKey(k1, hdr, t)
     ELSE afterIdentity(k1, hdr, t)

\* the handler returns: its in-memory documents are dropped; hdr, key, read
\* and at stay as the record of what the request was and what it loaded
Returned(rq, pc, resp) ==
  [rq EXCEPT !.pc = pc, !.resp = resp, !.project = NoProject, !.doc = NoKey,
             !.pending = NoPending]

\* the catch block: its own logEvent call is given null as data, so it
\* throws in turn and the handler ends without a response
Catch(r, rq) ==
  IF logEventThrows(DataNull)
  THEN /\ req' = [req EXCEPT ![r] = Returned(rq, "crashed", NoResp)]
       /\ UNCHANGED analytics
  ELSE /\ analytics' = Append(analytics, logEvent("error", DataObject("VALIDATION_ERROR"), r))
       /\ req' = [req EXCEPT ![r] = Returned(rq, "done",
                    [status |-> 500, body |-> RejectBody("Validation failed")])]

\* variant of the reply that answers without logging the event
Reply_unlogged(r, rq, type, data, status, body) ==
  /\ UNCHANGED analytics
  /\ req' = [req EXCEPT ![r] = Returned(rq, "done", [status |-> status, body |-> body])]

\* await Analytics.logEvent(type, data); return res.status(status).json(body)
Reply(r, rq, type, data, status, body) ==
  IF logEventThrows(data)
  THEN Catch(r, rq)
  ELSE /\ analytics' = Append(analytics, logEvent(type, data, r))
       /\ req' = [req EXCEPT ![r] = Returned(rq, "done", [status |-> status, body |-> body])]

\* a request arrives; the header check.  The request is immutable, and the
\* values of x-user-id and of the origin are drawn where the handler first
\* uses them, at the key lookup: the runs are the same, and the requests
\* rejected before that point do not differ by headers nothing looked at.
Receive(r) ==
  /\ req[r].pc = "idle"
  /\ \A q \in Reqs : q < r => req[q].pc # "idle"
  /\ \E pid \in HdrProject, ukey \in HdrKey :
       LET rq == [req[r] EXCEPT !.hdr.projectId = pid, !.hdr.userKey = ukey]
       IN IF pid = "" \/ ukey = ""
          THEN Reply(r, rq, "error", DataObject("MISSING_HEADERS"), 400,
                     RejectBody("Missing required headers"))
          ELSE /\ req' = [req EXCEPT ![r] = [rq EXCEPT !.pc = "findProject"]]
               /\ UNCHANGED analytics
  /\ UNCHANGED <<keys, projects, now, adminOps>>
  /\ UNCHANGED ldrVars
  /\ UNCHANGED toolVars

\* Project.findOne resolves
FindProject(r) ==
  /\ req[r].pc = "findProject"
  /\ LET p == findProject(req[r].hdr.projectId)
     IN IF p = Null \/ ~projects[p].isActive
        THEN Reply(r, req[r], "error", DataObject("PROJECT_NOT_FOUND"), 404,
                   RejectBody("Project not found"))
        ELSE /\ req' = [req EXCEPT ![r].pc = "findKey",
                          ![r].project = [id |-> p,
                               totalActivations |-> projects[p].totalActivations]]
             /\ UNCHANGED analytics
  /\ UNCHANGED <<keys, projects, now, adminOps>>
  /\ UNCHANGED ldrVars
  /\ UNCHANGED toolVars

\* Key.findOne resolves; the checks run up to the next await
FindKey(r) ==
  /\ req[r].pc = "findKey"
  /\ \E uid \in HdrUser, ip \in IPs :
     LET k == findKey(req[r].hdr.userKey, req[r].project.id)
         hdr == [req[r].hdr EXCEPT !.userId = uid, !.ip = ip]
         rq0 == [req[r] EXCEPT !.hdr = hdr]
     IN IF k = Null
        THEN /\ Reply(r, rq0, "error", DataObject("KEY_NOT_FOUND"), 401,
                      RejectBody("Invalid key"))
             /\ UNCHANGED keys
        ELSE LET c == checkKey(keys[k], hdr, now)
                 rq == [rq0 EXCEPT !.key = k, !.read = keys[k], !.at = now, !.doc = c.doc,
                          !.pending = [branch |-> c.branch, status |-> c.status,
                                       error |-> c.error, type |-> c.type,
                                       data |-> c.data]]
             IN IF c.branch = "tamper"
                THEN \* logEvent, sendNotification, Key.updateMany, response
                     /\ Reply(r, rq, c.type, c.data, c.status, RejectBody(c.error))
                     /\ keys' = IF logEventThrows(c.data) \/ uid = ""
                                THEN keys
                                ELSE [x \in KeyIds |->
                                       IF keys[x].linkedUserId = uid
                                       THEN [keys[x] EXCEPT !.status = "banned"]
                                       ELSE keys[x]]
                ELSE /\ req' = [req EXCEPT ![r] = [rq EXCEPT !.pc = "saveKey"]]
                     /\ UNCHANGED <<analytics, keys>>
  /\ UNCHANGED <<projects, now, adminOps>>
  /\ UNCHANGED ldrVars
  /\ UNCHANGED toolVars

\* key.save() resolves
SaveKey(r) ==
  /\ req[r].pc = "saveKey"
  /\ keys' = [keys EXCEPT ![req[r].key] = saveKey(keys[req[r].key], req[r].doc, req[r].read)]
  /\ IF req[r].pending.branch = "success"
     THEN /\ req' = [req EXCEPT ![r].pc = "saveProject",
                       ![r].project.totalActivations = req[r].project.totalActivations + 1]
          /\ UNCHANGED analytics
     ELSE Reply(r, req[r], req[r].pending.type, req[r].pending.data,
                req[r].pending.status, RejectBody(req[r].pending.error))
  /\ UNCHANGED <<projects, now, adminOps>>
  /\ UNCHANGED ldrVars
  /\ UNCHANGED toolVars

\* project.save() resolves; the success response
SaveProject(r) ==
  /\ req[r].pc = "saveProject"
  /\ projects' = [projects EXCEPT
        ![req[r].project.id].totalActivations = req[r].project.totalActivations]
  /\ Reply(r, req[r], req[r].pending.type, req[r].pending.data, 200, SuccessBody(req[r].doc))
  /\ UNCHANGED <<keys, now, adminOps>>
  /\ UNCHANGED ldrVars
  /\ UNCHANGED toolVars

\* a database call of the handler rejects: control passes to the catch block
DBFault(r) ==
  /\ req[r].pc \in {"findProject", "findKey", "saveKey", "saveProject"}
  /\ Catch(r, req[r])
  /\ UNCHANGED <<keys, projects, now, adminOps>>
  /\ UNCHANGED ldrVars
  /\ UNCHANGED toolVars

(* ---------------- owner operations (routes/keys.js) ---------------- *)

\* POST /api/keys/:keyId/ban
BanKey(k) ==
  /\ adminOps < MaxAdminOps
  /\ adminOps' = adminOps + 1
  /\ keys' = [keys EXCEPT ![k] = ban(keys[k])]
  /\ analytics' = Append(analytics, logEvent("ban", DataObjectId, 0))
  /\ UNCHANGED <<projects, req, now>>
  /\ UNCHANGED ldrVars
  /\ UNCHANGED toolVars

\* PUT /api/keys/:keyId with a status
UpdateKey(k) ==
  /\ adminOps < MaxAdminOps
  /\ adminOps' = adminOps + 1
  /\ \E s \in {"active", "inactive"} : keys' = [keys EXCEPT ![k].status = s]
  /\ UNCHANGED <<projects, analytics, req, now>>
  /\ UNCHANGED ldrVars
  /\ UNCHANGED toolVars

\* time passes
Tick ==
  /\ now < MaxTime
  /\ now' = now + 1
  /\ UNCHANGED <<keys, projects, analytics, req, adminOps>>
  /\ UNCHANGED ldrVars
  /\ UNCHANGED toolVars

(* ---------------- initial state and specification ---------------- *)

\* the stored state after the owner created project P1 (obfuscated), the
\* deactivated project P2, and the key K1 of P1
NewKey(kstr, expiresAt, linked, ips, maxAct) ==
  [NoKey EXCEPT !.keyString = kstr, !.project = "P1", !.expiresAt = expiresAt,
                !.linkedUserId = linked, !.allowedIPs = ips, !.maxActivations = maxAct]

InitServer ==
  /\ \E e \in {NoDate, 0}, l \in {"", "U1"}, ips \in {{}, {"IP1"}}, m \in 0..MaxLimit :
       keys = [k \in KeyIds |-> NewKey("ek_1", e, l, ips, m)]
  /\ projects = [p \in ProjectIds |->
                   [isActive |-> (p = "P1"), totalActivations |-> 0]]
  /\ analytics = <<>>
  /\ req = [r \in Reqs |-> IdleReq]
  /\ now = 0
  /\ adminOps = 0

\* the key as the owner's operations can have left it before the requests:
\* untouched, set inactive, banned, and banned and then set active or
\* inactive again by PUT /api/keys/:keyId, which leaves banInfo as it is
OwnerLeft(key) ==
  {key, [key EXCEPT !.status = "inactive"], ban(key),
   [ban(key) EXCEPT !.status = "active"], [ban(key) EXCEPT !.status = "inactive"]}

\* a key without restrictions, permanent or with an expiry date, as the
\* owner left it
InitOwner ==
  /\ \E e \in {NoDate, 0} :
       \E key \in OwnerLeft(NewKey("ek_1", e, "", {}, NoLimit)) :
         keys = [k \in KeyIds |-> key]
  /\ projects = [p \in ProjectIds |->
                   [isActive |-> (p = "P1"), totalActivations |-> 0]]
  /\ analytics = <<>>
  /\ req = [r \in Reqs |-> IdleReq]
  /\ now = 0
  /\ adminOps = 0

NextServer ==
  \/ \E r \in Reqs : Receive(r)
  \/ \E r \in Reqs : FindProject(r)
  \/ \E r \in Reqs : FindKey(r)
  \/ \E r \in Reqs : SaveKey(r)
  \/ \E r \in Reqs : SaveProject(r)
  \/ \E r \in Reqs : DBFault(r)
  \/ \E k \in KeyIds : BanKey(k)
  \/ \E k \in KeyIds : UpdateKey(k)
  \/ Tick


(* ---------------- recordActivation on one key document ---------------- *)

\* the entries the handler records: a success, or a rejection with its code
Recordable ==
  {[success |-> TRUE, errorCode |-> Null],
   [success |-> FALSE, errorCode |-> "KEY_EXPIRED"],
   [success |-> FALSE, errorCode |-> "USER_ID_MISMATCH"]}

\* the entries of n earlier calls, a success after every two rejections
Earlier(n) ==
  [i \in 1..n |-> IF i % 3 = 0 THEN [success |-> TRUE, errorCode |-> Null]
                  ELSE IF i % 3 = 1 THEN [success |-> FALSE, errorCode |-> "KEY_EXPIRED"]
                  ELSE [success |-> FALSE, errorCode |-> "USER_ID_MISMATCH"]]

\* key.recordActivation(userId, ip, userAgent, success, errorCode)
RecordActivation ==
  /\ rec.pc = "loaded"
  /\ rec.calls < MaxRecorded
  /\ \E e \in Recordable, ip \in IPs :
       rec' = [rec EXCEPT !.calls = @ + 1,
                          !.doc = recordActivation(@, ip, e.success, e.errorCode, now),
                          !.recorded = Append(@, e)]
  /\ UNCHANGED <<gen, obf, trial>>
  /\ UNCHANGED srvVars
  /\ UNCHANGED ldrVars

NextHistory == RecordActivation

(* ---------------- the loader (client-loader/loader-template.lua) ---------------- *)

MAX_EXECUTIONS == 1
Retries == 3                        \* makeSecureRequest: retries or 3
MinKeyLen == 10                     \* #userKey < 10
FingerprintThreshold == 1000
MaxKeptChecks == 10                 \* #ENVIRONMENT_CHECKS > 10
HashModulus == 999999

Invs == 1..MaxInvocations
Monitor == 0
Callers == {Monitor} \cup Invs
SuspiciousGlobals == {"getfenv", "setfenv", "loadstring", "dofile", "loadfile"}
PresentGlobals == SUBSET {"getfenv", "setfenv", "loadstring"}

\* the chunk's text as debug.getinfo reports it, as bytes
GenuineSource == <<114, 101, 116>>
TamperedSource == <<114, 101, 120>>
Fingerprints == {60, 61, 1100}

RECURSIVE WeightedSum(_, _)
WeightedSum(bytes, i) ==
  IF i = 0 THEN 0 ELSE WeightedSum(bytes, i - 1) + bytes[i] * i

\* the hash loop of verifyLoaderIntegrity, as the string it is compared as
sourceHash(bytes) == ToString(WeightedSum(bytes, Len(bytes)) % HashModulus)

\* verifyLoaderIntegrity: "error" when debug.getinfo cannot be called
verifyLoaderIntegrity(e) ==
  IF ~e.debugGetinfo THEN "error"
  ELSE IF sourceHash(e.source) # e.LOADER_HASH THEN "false"
  ELSE "true"

\* performAntiDebugChecks; slow and heavy are the outcomes of the timing
\* and the memory measurement
performAntiDebugChecks(e, slow, heavy) ==
  IF e.debugGetinfo THEN FALSE
  ELSE IF \E g \in SuspiciousGlobals : g \in e.globals THEN FALSE
  ELSE IF slow THEN FALSE
  ELSE IF heavy THEN FALSE
  ELSE TRUE

\* variant of the counter test that admits one more invocation
overLimit_offByOne(count) == count > MAX_EXECUTIONS + 1

\* EXECUTION_COUNT > MAX_EXECUTIONS
overLimit(count) == count > MAX_EXECUTIONS

\* the arguments validateAndExecute is called with: userKey nil, too short
\* or well formed (by length); userId nil ("") or given
KeyArgs == {0, 5, 12}
badUserKey(keyLen) == keyLen = 0 \/ keyLen < MinKeyLen

\* what HttpService:GetAsync can end with: an error, or a body
\* a Lua value that is nil or a string, the string as its bytes
Nil == [nil |-> TRUE, bytes |-> <<>>]
Str(bytes) == [nil |-> FALSE, bytes |-> bytes]

NoValue == [isTable |-> FALSE, valid |-> FALSE, code |-> Nil]
Table(valid, code) == [isTable |-> TRUE, valid |-> valid, code |-> code]
Bodies ==
  {[json |-> FALSE, value |-> NoValue],              \* not JSON
   [json |-> TRUE, value |-> NoValue],               \* JSON, not an object
   [json |-> TRUE, value |-> Table(FALSE, Nil)],     \* { valid: false, error }
   [json |-> TRUE, value |-> Table(TRUE, Str(<<81, 81, 61, 61>>))],  \* code "QQ=="
   [json |-> TRUE, value |-> Table(TRUE, Str(<<81, 103>>))]}         \* code "Qg"
HttpOutcomes ==
  {[ok |-> FALSE, body |-> [json |-> FALSE, value |-> NoValue]]}
    \cup {[ok |-> TRUE, body |-> b] : b \in Bodies}

\* HttpService:JSONDecode raises on a body that is not JSON
JSONDecodeThrows(body) == ~body.json

\* one caller's makeSecureRequest frame; outcomes lists how each finished
\* attempt ended
NoFrame ==
  [pc |-> "none", attempt |-> 0, sent |-> 0, waits |-> 0, outcomes |-> <<>>,
   endpoint |-> "", userKey |-> "", userId |-> ""]

\* entering makeSecureRequest: attempt 1 issues its GetAsync
StartFrame(endpoint, userKey, userId) ==
  [pc |-> "http", attempt |-> 1, sent |-> 1, waits |-> 0, outcomes |-> <<>>,
   endpoint |-> endpoint, userKey |-> userKey, userId |-> userId]

\* how one attempt of makeSecureRequest ends, given what GetAsync ended with
attemptEnds(out, attempt) ==
  IF out.ok /\ JSONDecodeThrows(out.body) THEN "raise"
  ELSE IF out.ok /\ out.body.value.isTable THEN "return"
  ELSE IF attempt < Retries THEN "wait"
  ELSE "giveup"

outcomeName(out) ==
  IF ~out.ok THEN "netfail"
  ELSE IF ~out.body.json THEN "notjson"
  ELSE IF ~out.body.value.isTable THEN "nontable"
  ELSE IF out.body.value.valid THEN "valid" ELSE "invalid"

\* position of a character in base64_chars, counted from 0; 64 for a
\* character that is not in it
B64Index(b) ==
  IF b \in 65..90 THEN b - 65
  ELSE IF b \in 97..122 THEN b - 71
  ELSE IF b \in 48..57 THEN b + 4
  ELSE IF b = 43 THEN 62
  ELSE IF b = 47 THEN 63
  ELSE 64

PadChar == 61                       \* '='

\* gsub('[^'..base64_chars..'=]', '')
StripForeign(s) == SelectSeq(s, LAMBDA b : B64Index(b) < 64 \/ b = PadChar)

\* the six binary digits of f, highest first
Bits6(f) == [k \in 1..6 |-> (f \div 2^(6 - k)) % 2]

\* gsub('.', ...): '=' gives nothing, any other character its six digits
ToBits(s) ==
  LET chars == SelectSeq(s, LAMBDA b : b # PadChar)
  IN [k \in 1..(6 * Len(chars)) |->
        Bits6(B64Index(chars[((k - 1) \div 6) + 1]))[((k - 1) % 6) + 1]]

RECURSIVE BitsValue(_, _, _)
BitsValue(bits, from, n) ==
  IF n = 0 THEN 0 ELSE bits[from] * 2^(n - 1) + BitsValue(bits, from + 1, n - 1)

\* gsub('%d%d%d?%d?%d?%d?%d?%d?', ...): each full group of eight digits
\* gives a character, the shorter last group gives nothing
GroupBytes(bits) == [k \in 1..(Len(bits) \div 8) |-> BitsValue(bits, 8 * (k - 1) + 1, 8)]

base64Decode(s) == GroupBytes(ToBits(StripForeign(s)))

RECURSIVE BitXor(_, _, _)
BitXor(a, b, n) ==
  IF n = 0 THEN 0
  ELSE (((a % 2) + (b % 2)) % 2) + 2 * BitXor(a \div 2, b \div 2, n - 1)

\* the XOR loop: character i with key character ((i - 1) % #key) + 1
xorDecrypt(decoded, key) ==
  [i \in 1..Len(decoded) |-> BitXor(decoded[i], key[((i - 1) % Len(key)) + 1], 8)]

RECURSIVE PositionSum(_, _)
PositionSum(bytes, i) ==
  IF i = 0 THEN 0 ELSE PositionSum(bytes, i - 1) + bytes[i] * (i % 255)

\* tostring(n) of a number n >= 0, as the characters of its decimal form
RECURSIVE Digits(_)
Digits(n) == IF n < 10 THEN <<48 + n>> ELSE Digits(n \div 10) \o <<48 + (n % 10)>>

\* tostring(codeHash % 999999)
codeHash(bytes) == Digits(PositionSum(bytes, Len(bytes)) % HashModulus)

\* variant that returns the decrypted text without comparing its checksum
decryptAndValidateCode_unchecked(encryptedCode, key, integrityHash) ==
  IF encryptedCode.nil \/ key.nil THEN Nil
  ELSE Str(xorDecrypt(base64Decode(encryptedCode.bytes), key.bytes))

\* decryptAndValidateCode(encryptedCode, key) with CONFIG.INTEGRITY_HASH
decryptAndValidateCode(encryptedCode, key, integrityHash) ==
  IF encryptedCode.nil \/ key.nil THEN Nil
  ELSE LET decrypted == xorDecrypt(base64Decode(encryptedCode.bytes), key.bytes)
       IN IF codeHash(decrypted) # integrityHash THEN Nil ELSE Str(decrypted)

\* executeSecureCode: "raise" when setfenv cannot be called
executeSecureCode(e, code, compiles, runs) ==
  IF code.nil \/ Len(code.bytes) = 0 THEN "false"
  ELSE IF "loadstring" \notin e.globals \/ ~compiles THEN "false"
  ELSE IF "setfenv" \notin e.globals THEN "raise"
  ELSE IF ~runs THEN "false"
  ELSE "true"

\* validateAndExecute after makeSecureRequest has returned response
afterHandshake(e, response, compiles, runs) ==
  IF ~response.isTable \/ ~response.valid
  THEN [result |-> "false", phase |-> "handshake"]
  ELSE LET plain == decryptAndValidateCode(response.code, e.OBFUSCATION_KEY,
                                           e.INTEGRITY_HASH)
       IN IF plain.nil THEN [result |-> "false", phase |-> "decrypt"]
          ELSE [result |-> executeSecureCode(e, plain, compiles, runs),
                phase |-> "execute"]

IdleInv == [pc |-> "idle", count |-> 0, phase |-> "none", result |-> "none"]

\* validateAndExecute(userKey, userId) is called: the code up to the first
\* yield, which is the GetAsync of the handshake
Invoke(i) ==
  /\ inv[i].pc = "idle"
  /\ \A j \in Invs : j < i => inv[j].pc # "idle"
  /\ EXECUTION_COUNT' = EXECUTION_COUNT + 1
  /\ \E keyLen \in KeyArgs, userId \in {"", "U1"}, slow \in BOOLEAN, heavy \in BOOLEAN :
       LET n == EXECUTION_COUNT + 1
           integrity == verifyLoaderIntegrity(lenv)
           uid == IF userId # "" THEN userId ELSE lenv.localPlayer
           end(phase, result) ==
             /\ inv' = [inv EXCEPT ![i] = [pc |-> "ended", count |-> n,
                                            phase |-> phase, result |-> result]]
             /\ UNCHANGED hs
       IN IF overLimit(n) THEN end("limit", "false")
          ELSE IF integrity = "error" THEN end("integrity", "raise")
          ELSE IF integrity = "false" THEN end("integrity", "false")
          ELSE IF ~performAntiDebugChecks(lenv, slow, heavy) THEN end("antidebug", "false")
          ELSE IF badUserKey(keyLen) THEN end("params", "false")
          ELSE /\ inv' = [inv EXCEPT ![i] = [pc |-> "handshake", count |-> n,
                                              phase |-> "handshake", result |-> "none"]]
               /\ hs' = [hs EXCEPT ![i] = StartFrame("/loader/validate", "key", uid)]
  /\ UNCHANGED <<lenv, ENVIRONMENT_CHECKS, mon, pay>>
  /\ UNCHANGED srvVars
  /\ UNCHANGED toolVars

\* the GetAsync of caller c's current attempt ends
HttpDone(c) ==
  /\ hs[c].pc = "http"
  /\ \E out \in HttpOutcomes, compiles \in BOOLEAN, runs \in BOOLEAN :
       LET how == attemptEnds(out, hs[c].attempt)
           fr == [hs[c] EXCEPT !.outcomes = Append(hs[c].outcomes, outcomeName(out))]
           response == IF how = "return" THEN out.body.value ELSE NoValue
           rest == afterHandshake(lenv, response, compiles, runs)
       IN IF how = "wait"
          THEN /\ hs' = [hs EXCEPT ![c] = [fr EXCEPT !.pc = "wait", !.waits = fr.waits + 1]]
               /\ UNCHANGED <<inv, mon>>
          ELSE /\ hs' = [hs EXCEPT ![c] = [fr EXCEPT !.pc =
                           IF how = "raise" THEN "raised" ELSE "returned"]]
               /\ IF c = Monitor
                  THEN /\ mon' = [mon EXCEPT !.pc = IF how = "raise" THEN "dead" ELSE "stopped"]
                       /\ UNCHANGED inv
                  ELSE /\ inv' = [inv EXCEPT ![c].pc = "ended",
                                    ![c].phase = IF how = "raise" THEN "handshake" ELSE rest.phase,
                                    ![c].result = IF how = "raise" THEN "raise" ELSE rest.result]
                       /\ UNCHANGED mon
  /\ UNCHANGED <<lenv, EXECUTION_COUNT, ENVIRONMENT_CHECKS, pay>>
  /\ UNCHANGED srvVars
  /\ UNCHANGED toolVars

\* the backoff wait of caller c ends: the next attempt issues its GetAsync
BackoffDone(c) ==
  /\ hs[c].pc = "wait"
  /\ hs' = [hs EXCEPT ![c].pc = "http", ![c].attempt = hs[c].attempt + 1,
                      ![c].sent = hs[c].sent + 1]
  /\ UNCHANGED <<lenv, EXECUTION_COUNT, ENVIRONMENT_CHECKS, inv, mon, pay>>
  /\ UNCHANGED srvVars
  /\ UNCHANGED toolVars

\* one iteration of the monitoring loop, after its wait
MonitorCheck ==
  /\ mon.pc = "waiting"
  /\ mon.checks < MaxChecks
  /\ \E fp \in Fingerprints :
       LET integrity == verifyLoaderIntegrity(lenv)
           kept == Append(ENVIRONMENT_CHECKS, fp)
       IN IF integrity = "error"
          THEN /\ mon' = [pc |-> "dead", checks |-> mon.checks + 1]
               /\ UNCHANGED <<hs, ENVIRONMENT_CHECKS>>
          ELSE IF integrity = "false"
          THEN /\ mon' = [pc |-> "handshake", checks |-> mon.checks + 1]
               /\ hs' = [hs EXCEPT ![Monitor] =
                           StartFrame("/loader/tamper-detected", TAMPER, lenv.localPlayer)]
               /\ UNCHANGED ENVIRONMENT_CHECKS
          ELSE IF /\ ENVIRONMENT_CHECKS # <<>>
                  /\ (IF fp >= ENVIRONMENT_CHECKS[1] THEN fp - ENVIRONMENT_CHECKS[1]
                      ELSE ENVIRONMENT_CHECKS[1] - fp) > FingerprintThreshold
          THEN /\ mon' = [pc |-> "stopped", checks |-> mon.checks + 1]
               /\ UNCHANGED <<hs, ENVIRONMENT_CHECKS>>
          ELSE /\ mon' = [pc |-> "waiting", checks |-> mon.checks + 1]
               /\ ENVIRONMENT_CHECKS' = IF Len(kept) > MaxKeptChecks THEN Tail(kept) ELSE kept
               /\ UNCHANGED hs
  /\ UNCHANGED <<lenv, EXECUTION_COUNT, inv, pay>>
  /\ UNCHANGED srvVars
  /\ UNCHANGED toolVars

\* the running chunk's text is modified
TamperSource ==
  /\ lenv.source = GenuineSource
  /\ lenv' = [lenv EXCEPT !.source = TamperedSource]
  /\ UNCHANGED <<EXECUTION_COUNT, ENVIRONMENT_CHECKS, inv, mon, hs, pay>>
  /\ UNCHANGED srvVars
  /\ UNCHANGED toolVars

(* ---------------- one invocation in each environment ---------------- *)

\* validateAndExecute(userKey, userId) as a whole, for the call that makes
\* EXECUTION_COUNT count, given what the measurements of the anti-debug
\* checks give and what makeSecureRequest returns
validateAndExecute(e, count, keyLen, slow, heavy, response, compiles, runs) ==
  LET integrity == verifyLoaderIntegrity(e)
  IN IF overLimit(count) THEN [result |-> "false", phase |-> "limit"]
     ELSE IF integrity = "error" THEN [result |-> "raise", phase |-> "integrity"]
     ELSE IF integrity = "false" THEN [result |-> "false", phase |-> "integrity"]
     ELSE IF ~performAntiDebugChecks(e, slow, heavy)
     THEN [result |-> "false", phase |-> "antidebug"]
     ELSE IF badUserKey(keyLen) THEN [result |-> "false", phase |-> "params"]
     ELSE afterHandshake(e, response, compiles, runs)

\* the environments and measurements to try, numbered: debug.getinfo,
\* loadstring, setfenv and getfenv each present or not, the timing and the
\* memory measurement each over its threshold or not
NumTrials == 64
Bit(k, n) == (k \div 2^n) % 2 = 1
Trial(k, e) ==
  [env |-> [e EXCEPT !.debugGetinfo = Bit(k, 0),
                     !.globals = {g \in {"loadstring"} : Bit(k, 1)}
                                   \cup {g \in {"setfenv"} : Bit(k, 2)}
                                   \cup {g \in {"getfenv"} : Bit(k, 3)}],
   slow |-> Bit(k, 4), heavy |-> Bit(k, 5)]

\* the response of a server that accepts the key, with a payload that the
\* loader's key decrypts to a text of the embedded checksum
AcceptedResponse == Table(TRUE, Str(<<81, 81, 61, 61>>))

\* the next environment: the chunk is loaded there and validateAndExecute
\* is called once with a well-formed key; the request is answered at once
\* by a server that accepts the key, and the payload compiles and runs
TryEnvironment ==
  /\ trial.pc = "trying"
  /\ trial.next < NumTrials
  /\ LET t == Trial(trial.next, trial.loader)
         r == validateAndExecute(t.env, 1, 12, t.slow, t.heavy, AcceptedResponse, TRUE, TRUE)
     IN trial' = [trial EXCEPT !.next = @ + 1,
                               !.results = Append(@, [phase |-> r.phase,
                                                      result |-> r.result])]
  /\ UNCHANGED <<gen, obf, rec>>
  /\ UNCHANGED srvVars
  /\ UNCHANGED ldrVars

NextTrials == TryEnvironment

(* ---------------- initial states and specifications ---------------- *)

ServerAtRest ==
  /\ keys = [k \in KeyIds |-> NewKey("ek_1", NoDate, "", {}, NoLimit)]
  /\ projects = [p \in ProjectIds |-> [isActive |-> (p = "P1"), totalActivations |-> 0]]
  /\ analytics = <<>>
  /\ req = [r \in Reqs |-> IdleReq]
  /\ now = 0
  /\ adminOps = 0

NoPay == [pc |-> "none", response |-> NoValue, result |-> "none", phase |-> "none"]

NoGen == [pc |-> "none"]
NoObf == [pc |-> "none"]
NoRec == [pc |-> "none"]
NoTrial == [pc |-> "none"]
ToolsAtRest == gen = NoGen /\ obf = NoObf /\ rec = NoRec /\ trial = NoTrial

\* the loader's variables just after the chunk was loaded in environment e
LoaderLoaded(e) ==
  /\ pay = NoPay
  /\ lenv = e
  /\ EXECUTION_COUNT = 0
  /\ ENVIRONMENT_CHECKS = <<>>
  /\ inv = [i \in Invs |-> IdleInv]
  /\ mon = [pc |-> "waiting", checks |-> 0]
  /\ hs = [c \in Callers |-> NoFrame]

LoaderFresh(e) == ToolsAtRest /\ LoaderLoaded(e)

RestEnv ==
  [debugGetinfo |-> FALSE, globals |-> {}, source |-> GenuineSource,
   LOADER_HASH |-> sourceHash(GenuineSource), localPlayer |-> "",
   INTEGRITY_HASH |-> <<49, 49, 50>>, OBFUSCATION_KEY |-> Str(<<49>>)]

LoaderIdle == LoaderLoaded(RestEnv)

LoaderAtRest == LoaderFresh(RestEnv)

\* a loader was loaded: its environment, and the LOADER_HASH it embeds (the
\* hash of its text, or the generator's placeholder)
InitLoader ==
  \E d \in BOOLEAN, g \in PresentGlobals, h \in {sourceHash(GenuineSource), "000000"},
     p \in {"", "U1"} :
    LoaderFresh([debugGetinfo |-> d, globals |-> g, source |-> GenuineSource,
                 LOADER_HASH |-> h, localPlayer |-> p,
                 INTEGRITY_HASH |-> <<49, 49, 50>>, OBFUSCATION_KEY |-> Str(<<49>>)])

NextLoader ==
  \/ \E i \in Invs : Invoke(i)
  \/ \E c \in Callers : HttpDone(c)
  \/ \E c \in Callers : BackoffDone(c)
  \/ MonitorCheck
  \/ TamperSource

Init == InitServer /\ LoaderAtRest
InitOwned == InitOwner /\ LoaderAtRest
Next == NextServer
Spec == Init /\ [][Next]_vars
SpecOwned == InitOwned /\ [][Next]_vars

\* a key document on which none, or nearly or exactly HistoryCap calls of
\* recordActivation were made
InitHistory ==
  /\ ServerAtRest
  /\ LoaderIdle
  /\ gen = NoGen
  /\ obf = NoObf
  /\ trial = NoTrial
  /\ \E n \in {0, HistoryCap - 2, HistoryCap - 1, HistoryCap} :
       rec = [pc |-> "loaded", calls |-> 0,
              doc |-> [NewKey("ek_1", NoDate, "", {}, NoLimit)
                         EXCEPT !.history = Earlier(n), !.totalActivations = n],
              recorded |-> Earlier(n)]

SpecHistory == InitHistory /\ [][NextHistory]_vars

\* an untampered loader: its text, the LOADER_HASH it embeds (the hash of
\* the text, or the generator's placeholder), the player it runs for
InitTrials ==
  /\ ServerAtRest
  /\ LoaderIdle
  /\ gen = NoGen
  /\ obf = NoObf
  /\ rec = NoRec
  /\ \E h \in {sourceHash(GenuineSource), "000000"}, p \in {"", "U1"} :
       trial = [pc |-> "trying", next |-> 0, results |-> <<>>,
                loader |-> [RestEnv EXCEPT !.LOADER_HASH = h, !.localPlayer = p]]

SpecTrials == InitTrials /\ [][NextTrials]_vars

InitLoaded == ServerAtRest /\ InitLoader
SpecLoader == InitLoaded /\ [][NextLoader]_vars

(* ---------------- the payload steps of validateAndExecute, on their own ---------------- *)

\* the code values of a response: nil, or a text of up to MaxCodeLen
\* characters out of 'A', 'Q', 'g', '=' and '('
CodeChars == {65, 81, 103, 61, 40}
CodeTexts == UNION {[1..n -> CodeChars] : n \in 0..MaxCodeLen}
CodeValues == {Nil} \cup {Str(t) : t \in CodeTexts}
KeyValues == {Nil, Str(<<49>>), Str(<<97, 98>>)}
HashValues == {<<48>>, <<49, 49, 50>>, <<97, 51, 102, 57, 99, 49>>}   \* 0, 112, a3f9c1

\* lines 272-283 of validateAndExecute applied to a response
HandleResponse ==
  /\ pay.pc = "response"
  /\ \E compiles \in BOOLEAN, runs \in BOOLEAN :
       LET rest == afterHandshake(lenv, pay.response, compiles, runs)
       IN pay' = [pay EXCEPT !.pc = "returned", !.result = rest.result,
                             !.phase = rest.phase]
  /\ UNCHANGED <<lenv, EXECUTION_COUNT, ENVIRONMENT_CHECKS, inv, mon, hs>>
  /\ UNCHANGED srvVars
  /\ UNCHANGED toolVars

\* makeSecureRequest has returned a table to validateAndExecute
InitPayload ==
  /\ ServerAtRest
  /\ ToolsAtRest
  /\ EXECUTION_COUNT = 1
  /\ ENVIRONMENT_CHECKS = <<>>
  /\ inv = [i \in Invs |-> IdleInv]
  /\ mon = [pc |-> "waiting", checks |-> 0]
  /\ hs = [c \in Callers |-> NoFrame]
  /\ \E g \in {{}, {"loadstring"}, {"loadstring", "setfenv"}}, k \in KeyValues,
        h \in HashValues, v \in BOOLEAN, c \in CodeValues :
       /\ lenv = [debugGetinfo |-> FALSE, globals |-> g, source |-> GenuineSource,
                  LOADER_HASH |-> sourceHash(GenuineSource), localPlayer |-> "",
                  INTEGRITY_HASH |-> h, OBFUSCATION_KEY |-> k]
       /\ pay = [pc |-> "response", response |-> Table(v, c),
                 result |-> "none", phase |-> "none"]

NextPayload == HandleResponse
SpecPayload == InitPayload /\ [][NextPayload]_vars

\* the same service when the requests are sent one after the other: a
\* request arrives only when no other is being handled
ReceiveSeq(r) ==
  /\ \A q \in Reqs : req[q].pc \in {"idle", "done", "crashed"}
  /\ Receive(r)

NextSeq ==
  \/ \E r \in Reqs : ReceiveSeq(r)
  \/ \E r \in Reqs : FindProject(r)
  \/ \E r \in Reqs : FindKey(r)
  \/ \E r \in Reqs : SaveKey(r)
  \/ \E r \in Reqs : SaveProject(r)
  \/ \E r \in Reqs : DBFault(r)
  \/ \E k \in KeyIds : BanKey(k)
  \/ \E k \in KeyIds : UpdateKey(k)
  \/ Tick

SpecSeq == Init /\ [][NextSeq]_vars

(* ---------------- the loader generator (client-loader/loader-generator.js) ---------------- *)

\* A text is a sequence of character codes.  The fixed pieces of the
\* template and of the generator that no step looks into are written as one
\* code each, outside the ASCII range; a placeholder is a negative code.
NL == 10
QUOTE == 34
KW_LOCAL == 128                        \* "local "
CMT_ANTIDEBUG == 129                \* "-- Anti-debugging checks"
CMT_PERFORM == 130                  \* "-- Perform anti-debugging checks"
BODY == 131                         \* other code of the template
DUMMY_FUNCS == 132                  \* dummyFunctions.join('\n')
DUMMY_CALL == 133                   \* dummyCalls[0], then 134 and 135
CUSTOM_CHECK == 136                 \* customCheck
PREMIUM == 137                      \* premiumFeatures
STRCHAR_OPEN == 138                 \* "string.char("
SEP == 139                          \* ", "
CLOSE == 140                        \* ")"
ID_CONFIG == 201                    \* the identifier CONFIG
ID_LOADER_HASH == 202               \* the identifier LOADER_HASH
RENAMED == 300                      \* _L0, then _L1, ...
PH_PROJECT_ID == -1
PH_INTEGRITY_HASH == -2
PH_LOADER_HASH == -3

Idents == {ID_CONFIG, ID_LOADER_HASH}

\* loader-template.lua, cut down to the lines the generator acts on
Template ==
  <<KW_LOCAL, ID_CONFIG, QUOTE, PH_PROJECT_ID, QUOTE, QUOTE, PH_INTEGRITY_HASH, QUOTE, NL,
    KW_LOCAL, ID_LOADER_HASH, QUOTE, PH_LOADER_HASH, QUOTE, NL,
    CMT_ANTIDEBUG, NL, BODY, NL, CMT_PERFORM, NL, BODY>>

RECURSIVE Concat(_)
Concat(ss) == IF ss = <<>> THEN <<>> ELSE Head(ss) \o Concat(Tail(ss))

\* text.replace(new RegExp(placeholder, 'g'), value)
ReplaceAll(text, ph, value) ==
  Concat([i \in 1..Len(text) |-> IF text[i] = ph THEN value ELSE <<text[i]>>])

\* first position of a code in a text, 0 when there is none
IndexOf(text, c) ==
  IF \E i \in 1..Len(text) : text[i] = c
  THEN CHOOSE i \in 1..Len(text) : text[i] = c /\ \A j \in 1..(i - 1) : text[j] # c
  ELSE 0

\* text.replace(placeholder, value): the first occurrence only
ReplaceFirst(text, ph, value) ==
  LET i == IndexOf(text, ph)
  IN IF i = 0 THEN text
     ELSE SubSeq(text, 1, i - 1) \o value \o SubSeq(text, i + 1, Len(text))

\* text with ins put in before position i
InsertBefore(text, i, ins) ==
  SubSeq(text, 1, i - 1) \o ins \o SubSeq(text, i, Len(text))

\* generateIntegrityHash: (sum of charCode * (i + 1)) % 999999, in decimal
generateIntegrityHash(code) == Digits(WeightedSum(code, Len(code)) % HashModulus)

\* obfuscateLoader, renaming: the identifiers declared with local, in the
\* order of their first declaration
RECURSIVE Declared(_, _)
Declared(text, seen) ==
  IF Len(text) < 2 THEN seen
  ELSE IF /\ text[1] = KW_LOCAL /\ text[2] \in Idents
          /\ \A k \in 1..Len(seen) : seen[k] # text[2]
       THEN Declared(Tail(text), Append(seen, text[2]))
       ELSE Declared(Tail(text), seen)

renameLocals(text) ==
  LET decl == Declared(text, <<>>)
      newName(c) == IF \E k \in 1..Len(decl) : decl[k] = c
                    THEN RENAMED + (CHOOSE k \in 1..Len(decl) : decl[k] = c) - 1
                    ELSE c
  IN [i \in 1..Len(text) |-> newName(text[i])]

HasPrefix(t, p) == Len(t) >= Len(p) /\ SubSeq(t, 1, Len(p)) = p
HasSuffix(t, p) == Len(t) >= Len(p) /\ SubSeq(t, Len(t) - Len(p) + 1, Len(t)) = p
Lower(c) == IF c \in 65..90 THEN c + 32 ELSE c
ContainsNoCase(t, p) ==
  \E i \in 1..Len(t) : i + Len(p) - 1 <= Len(t)
                        /\ \A k \in 1..Len(p) : Lower(t[i + k - 1]) = p[k]

\* shouldSkipString: URLs, constants, ...Service, X-..., json
shouldSkipString(str) ==
  \/ HasPrefix(str, <<104, 116, 116, 112, 58, 47, 47>>)
  \/ HasPrefix(str, <<104, 116, 116, 112, 115, 58, 47, 47>>)
  \/ (str # <<>> /\ \A i \in 1..Len(str) : str[i] \in 65..90 \/ str[i] = 95)
  \/ HasSuffix(str, <<83, 101, 114, 118, 105, 99, 101>>)
  \/ HasPrefix(str, <<88, 45>>)
  \/ ContainsNoCase(str, <<106, 115, 111, 110>>)

\* string.char(c1, c2, ...)
RECURSIVE CharCodes(_)
CharCodes(content) ==
  IF content = <<>> THEN <<>>
  ELSE IF Len(content) = 1 THEN Digits(content[1])
  ELSE Digits(content[1]) \o <<SEP>> \o CharCodes(Tail(content))

StringChar(content) == <<STRCHAR_OPEN>> \o CharCodes(content) \o <<CLOSE>>

\* obfuscateStrings: each "..." literal of three characters or more that
\* is not skipped becomes a string.char call
RECURSIVE obfuscateStrings(_)
obfuscateStrings(code) ==
  LET open == IndexOf(code, QUOTE)
  IN IF open = 0 THEN code
     ELSE LET rest == SubSeq(code, open + 1, Len(code))
              close == IndexOf(rest, QUOTE)
          IN IF close = 0 THEN code
             ELSE LET content == SubSeq(rest, 1, close - 1)
                      literal == <<QUOTE>> \o content \o <<QUOTE>>
                  IN SubSeq(code, 1, open - 1)
                       \o (IF Len(content) < 3 \/ shouldSkipString(content)
                           THEN literal ELSE StringChar(content))
                       \o obfuscateStrings(SubSeq(rest, close + 1, Len(rest)))


RECURSIVE Split(_)
\* code.split('\n')
Split(text) ==
  LET i == IndexOf(text, NL)
  IN IF i = 0 THEN <<text>>
     ELSE <<SubSeq(text, 1, i - 1)>> \o Split(SubSeq(text, i + 1, Len(text)))

RECURSIVE Join(_)
\* lines.join('\n')
Join(lines) ==
  IF Len(lines) = 1 THEN lines[1]
  ELSE lines[1] \o <<NL>> \o Join(Tail(lines))

\* lines.splice(at, 0, line), at counted from 0
Splice(lines, at, line) ==
  LET k == IF at > Len(lines) THEN Len(lines) ELSE at
  IN SubSeq(lines, 1, k) \o <<line>> \o SubSeq(lines, k + 1, Len(lines))

\* code.indexOf('local CONFIG'), counted from 1; 0 when absent
IndexOfLocalConfig(code) ==
  IF \E i \in 1..(Len(code) - 1) : code[i] = KW_LOCAL /\ code[i + 1] = ID_CONFIG
  THEN CHOOSE i \in 1..(Len(code) - 1) :
         /\ code[i] = KW_LOCAL /\ code[i + 1] = ID_CONFIG
         /\ \A j \in 1..(i - 1) : ~(code[j] = KW_LOCAL /\ code[j + 1] = ID_CONFIG)
  ELSE 0

\* addDummyCode: the dummy functions before 'local CONFIG', then a dummy
\* call at a quarter, a half and three quarters of the lines
addDummyCode(code) ==
  LET at == IndexOfLocalConfig(code)
      withFuncs == IF at # 0 THEN InsertBefore(code, at, <<DUMMY_FUNCS, NL, NL>>) ELSE code
      lines == Split(withFuncs)
      n == Len(lines)
      put(ls, index) ==
        IF (n * (index + 1)) \div 4 < Len(ls)
        THEN Splice(ls, ((n * (index + 1)) \div 4) + index, <<DUMMY_CALL + index>>)
        ELSE ls
  IN Join(put(put(put(lines, 0), 1), 2))

obfuscateLoader(loader) == addDummyCode(obfuscateStrings(renameLocals(loader)))

\* addPremiumFeatures
addPremiumFeatures(loader) ==
  LET at == IndexOf(loader, CMT_PERFORM)
  IN IF at # 0 THEN InsertBefore(loader, at, <<PREMIUM, NL, NL>>) ELSE loader

\* addProjectCustomizations
addProjectCustomizations(loader, project) ==
  LET at == IndexOf(loader, CMT_ANTIDEBUG)
      customized == IF project.integrityChecks /\ at # 0
                    THEN InsertBefore(loader, at, <<CUSTOM_CHECK, NL, NL>>)
                    ELSE loader
  IN IF project.tier = "premium" THEN addPremiumFeatures(customized) ELSE customized

\* generateLoaderConfig: sha is the first six hex digits of the SHA-256 of
\* the deployment's code
\* the deployment's code; key is the hex form of crypto.randomBytes(32)
generateLoaderConfig(project, sha, key) ==
  [projectId |-> project.projectId, integrityHash |-> sha, obfuscationKey |-> key,
   loaderHash |-> <<48, 48, 48, 48, 48, 48>>]

\* generateLoader, "Replace template variables"
Rendered(config) ==
  ReplaceAll(ReplaceAll(ReplaceAll(Template, PH_PROJECT_ID, config.projectId),
                        PH_INTEGRITY_HASH, config.integrityHash),
             PH_LOADER_HASH, config.loaderHash)

\* generateLoader(project, options)
generateLoader(project, options, sha, key) ==
  LET config == generateLoaderConfig(project, sha, key)
      rendered == Rendered(config)
      obfuscated == IF options.obfuscateLoader THEN obfuscateLoader(rendered) ELSE rendered
      customized == addProjectCustomizations(obfuscated, project)
      finalHash == generateIntegrityHash(customized)
  IN [loader |-> ReplaceFirst(customized, PH_LOADER_HASH, finalHash),
      config |-> config, finalHash |-> finalHash]

ProjectIdTexts == {<<80, 49>>, <<80, 82, 74>>, <<112, 114, 106, 49>>}       \* P1, PRJ, prj1
ShaPrefixes == {<<97, 51, 102, 57, 99, 49>>, <<49, 50, 51, 52, 53, 54>>,
                <<48, 48, 99, 97, 102, 101>>}                               \* a3f9c1, 123456, 00cafe

HexKeys == {<<97, 49>>, <<48, 102>>}                                        \* a1, 0f

\* LoaderGenerator.generate(project, options) is called
GenerateLoader ==
  /\ gen.pc = "called"
  /\ gen' = [gen EXCEPT !.pc = "generated",
                        !.out = generateLoader(gen.project, gen.options, gen.sha, gen.key)]
  /\ UNCHANGED <<obf, rec, trial>>
  /\ UNCHANGED srvVars
  /\ UNCHANGED ldrVars

InitGenerator ==
  /\ ServerAtRest
  /\ LoaderIdle
  /\ obf = NoObf
  /\ rec = NoRec
  /\ trial = NoTrial
  /\ \E id \in ProjectIdTexts, sha \in ShaPrefixes, key \in HexKeys, o \in BOOLEAN,
        c \in BOOLEAN, t \in {"standard", "premium"} :
       gen = [pc |-> "called",
              project |-> [projectId |-> id, integrityChecks |-> c, tier |-> t],
              options |-> [obfuscateLoader |-> o], sha |-> sha, key |-> key,
              out |-> [loader |-> <<>>, config |-> generateLoaderConfig(
                         [projectId |-> id, integrityChecks |-> c, tier |-> t], sha, key),
                       finalHash |-> <<>>]]

NextGenerator == GenerateLoader
SpecGenerator == InitGenerator /\ [][NextGenerator]_vars

(* ---------------- a generated loader receiving the service's payload ---------------- *)

\* the deployment's obfuscatedCode: a text of up to MaxServedLen characters
\* out of 'p', '(', '1' and 'Q'
ServedChars == {112, 40, 49, 81}
ServedTexts == UNION {[1..n -> ServedChars] : n \in 1..MaxServedLen}

\* what makeSecureRequest returns for the success response of the
\* validation service: { valid: true, code: project.obfuscatedCode, ... }
ServedResponse(obfuscatedCode) == Table(TRUE, Str(obfuscatedCode))

\* the environment of a loader generated with config, in a runtime that
\* has loadstring and setfenv
GeneratedEnv(config) ==
  [RestEnv EXCEPT !.globals = {"loadstring", "setfenv"},
                  !.INTEGRITY_HASH = config.integrityHash,
                  !.OBFUSCATION_KEY = Str(config.obfuscationKey)]

\* a loader generated for deployment P1 has received the service's answer
\* to a valid key of P1
InitServed ==
  /\ ServerAtRest
  /\ ToolsAtRest
  /\ EXECUTION_COUNT = 1
  /\ ENVIRONMENT_CHECKS = <<>>
  /\ inv = [i \in Invs |-> IdleInv]
  /\ mon = [pc |-> "waiting", checks |-> 0]
  /\ hs = [c \in Callers |-> NoFrame]
  /\ \E code \in ServedTexts, sha \in ShaPrefixes, key \in HexKeys :
       LET project == [projectId |-> <<80, 49>>, integrityChecks |-> FALSE,
                       tier |-> "standard"]
       IN /\ lenv = GeneratedEnv(generateLoaderConfig(project, sha, key))
          /\ pay = [pc |-> "response", response |-> ServedResponse(code),
                    result |-> "none", phase |-> "none"]

SpecServed == InitServed /\ [][NextPayload]_vars

(* ---------------- the obfuscation engine (obfuscation-engine/obfuscator.js) ---------------- *)

\* Lua text is a sequence of tokens with single white space between them:
\* character codes, NL, QUOTE, KW_LOCAL as above, and the tokens below.  A
\* block of text that the engine emits and no later step of the model looks
\* into is one token.
K_IF == 401
K_THEN == 402
K_ELSE == 403
K_ELSEIF == 404
K_END == 405
K_RETURN == 406
K_WHILE == 407
K_DO == 408
K_AND == 409
K_OR == 410
OP_EQ == 411                        \* ==
OP_NE == 412                        \* ~=
ASSIGN == 413                       \* =
PRINT_OPEN == 414                   \* print(
PAREN_CLOSE == 415                  \* )
ID_C == 420                         \* the identifier c
ID_X == 421                         \* the identifier x
GEN_NAME == 1000                    \* _<8 random characters><counter>
DECRYPT_FN == 430                   \* the text of generateDecryptFunction
DECRYPT_CALL == 431                 \* _G._EC_decrypt(
AES_OPEN == 432                     \* base64 of key:iv:aes-256-cbc ciphertext, as a term
AES_CLOSE == 433
ANTIDEBUG == 434                    \* antiDebugChecks
BYTECODE_FN == 435                  \* _EC_decrypt_bytecode and "local _EC_code ="
B64_OPEN == 436                     \* Buffer.from(code).toString('base64'), as a term
B64_CLOSE == 437
BYTECODE_KEY == 438                 \* local _EC_key =
BYTECODE_RUN == 439                 \* the decrypt call and loadstring(_EC_decrypted)()
VM_PRELUDE == 440                   \* _EC_VM and its methods, "_EC_VM.instructions = {"
VM_LOAD_PRINT == 441                \* {"LOAD", print}
VM_LOAD == 442                      \* {"LOAD", <expression>}
VM_CALL1 == 443                     \* {"CALL", 1}
VM_EXECUTE == 444                   \* } _EC_VM:execute()
INTEGRITY_FN == 445                 \* _EC_verify_integrity up to expected_hash =
SHA_OPEN == 446                     \* sha256 hex digest of the code, as a term
SHA_CLOSE == 447
INTEGRITY_CALL == 448               \* the rest of the check and its call
WRAP_OPEN == 449                    \* the wrapper's header up to "Generated: "
WRAP_BODY == 450                    \* (function() local _EC_protected = function()
WRAP_CLOSE == 451                   \* end, the pcall and the end of the closure
VM_LOAD_CLOSE == 452                \* } after a loaded expression

ObfIdents == {ID_C, ID_X}
Reserved == {PRINT_OPEN}

\* the options a caller may pass: each one left out, or given; tier as
\* 'standard' or 'premium', a flag as true or false
RawOptions ==
  LET Given == {"absent", "true", "false"}
  IN [tier : {"absent", "standard", "premium"}, stringEncryption : Given,
      variableRenaming : Given, antiDebugging : Given, controlFlowFlattening : Given,
      bytecodeEncryption : Given, virtualization : Given, integrityChecks : Given]

\* new LuaObfuscator(options): "options.flag !== false" for the flags that
\* default to on, "options.flag || false" for the premium ones, then
\* ...options
constructor(options) ==
  LET NotFalse(v) == v # "false"
      OrFalse(v) == v = "true"
  IN [options |->
        [tier |-> IF options.tier = "absent" THEN "standard" ELSE options.tier,
         stringEncryption |-> NotFalse(options.stringEncryption),
         variableRenaming |-> NotFalse(options.variableRenaming),
         antiDebugging |-> NotFalse(options.antiDebugging),
         controlFlowFlattening |-> OrFalse(options.controlFlowFlattening),
         bytecodeEncryption |-> OrFalse(options.bytecodeEncryption),
         virtualization |-> OrFalse(options.virtualization),
         integrityChecks |-> NotFalse(options.integrityChecks)],
      variableMap |-> <<>>,
      varCounter |-> 0]

\* generateVariableName: "_", 8 characters drawn at random, the counter
generateVariableName(rnd, varCounter) == GEN_NAME + 100 * rnd + varCounter

\* encryptString(str) with the key drawn for it
encryptString(str, key) == <<AES_OPEN, key>> \o str \o <<AES_CLOSE>>

\* the string literals of a text, found by stringRegex
HasLiteral(code) ==
  \E i, j \in 1..Len(code) : i < j /\ code[i] = QUOTE /\ code[j] = QUOTE

\* encryptStrings, the replacement of each literal by a decrypt call
RECURSIVE EncryptLiterals(_, _)
EncryptLiterals(code, key) ==
  IF code = <<>> THEN <<>>
  ELSE IF code[1] = QUOTE /\ IndexOf(Tail(code), QUOTE) # 0
       THEN LET close == IndexOf(Tail(code), QUOTE)
                content == SubSeq(Tail(code), 1, close - 1)
            IN <<DECRYPT_CALL, QUOTE>> \o encryptString(content, key)
                 \o <<QUOTE, PAREN_CLOSE>>
                 \o EncryptLiterals(SubSeq(code, close + 2, Len(code)), key)
       ELSE <<code[1]>> \o EncryptLiterals(Tail(code), key)

encryptStrings(code, key) == <<DECRYPT_FN, NL>> \o EncryptLiterals(code, key)

\* renameVariables, first pass: the names after "local" and before "=",
\* in the order the patterns find them
RECURSIVE Matched(_, _, _)
Matched(code, pattern, seen) ==
  IF Len(code) < 2 THEN seen
  ELSE LET name == IF pattern = "local" /\ code[1] = KW_LOCAL THEN code[2]
                   ELSE IF pattern = "assign" /\ code[2] \in {ASSIGN, OP_EQ} THEN code[1]
                   ELSE 0
       IN IF name \in ObfIdents \ Reserved /\ \A k \in 1..Len(seen) : seen[k] # name
          THEN Matched(Tail(code), pattern, Append(seen, name))
          ELSE Matched(Tail(code), pattern, seen)

\* renameVariables: this.variableMap is a sequence of <<old, new>> in
\* insertion order
RECURSIVE MapNames(_, _, _, _)
MapNames(found, map, varCounter, rnd) ==
  IF found = <<>> THEN [variableMap |-> map, varCounter |-> varCounter]
  ELSE IF \E k \in 1..Len(map) : map[k][1] = Head(found)
       THEN MapNames(Tail(found), map, varCounter, rnd)
       ELSE MapNames(Tail(found),
                     Append(map, <<Head(found), generateVariableName(rnd, varCounter)>>),
                     varCounter + 1, rnd)

RECURSIVE ReplaceNames(_, _)
ReplaceNames(code, map) ==
  IF map = <<>> THEN code
  ELSE ReplaceNames([i \in 1..Len(code) |->
                       IF code[i] = map[1][1] THEN map[1][2] ELSE code[i]], Tail(map))

renameVariables(code, variableMap, varCounter, rnd) ==
  LET found == Matched(code, "assign", Matched(code, "local", <<>>))
      m == MapNames(found, variableMap, varCounter, rnd)
  IN [code |-> ReplaceNames(code, m.variableMap),
      variableMap |-> m.variableMap, varCounter |-> m.varCounter]

addAntiDebugging(code) == <<ANTIDEBUG>> \o code

\* ifPattern tried on a text that starts with "if": <<p, q, e>> with "then"
\* at p, the "else" or "end" that follows the then block at q, and the
\* closing "end" at e; the condition and each block take at least one token
IfMatches(t) ==
  {m \in (3..Len(t)) \X (5..Len(t)) \X (5..Len(t)) :
     /\ t[m[1]] = K_THEN
     /\ m[2] >= m[1] + 2
     /\ \/ t[m[2]] = K_END /\ m[3] = m[2]
        \/ t[m[2]] = K_ELSE /\ m[3] >= m[2] + 2 /\ t[m[3]] = K_END}

\* the match the lazy quantifiers of ifPattern settle on: the shortest
\* condition, then the shortest then block, then the shortest else block
LazyMatch(t) ==
  LET Before(m, n) ==
        \/ m[1] < n[1]
        \/ m[1] = n[1] /\ m[2] < n[2]
        \/ m[1] = n[1] /\ m[2] = n[2] /\ m[3] <= n[3]
  IN CHOOSE m \in IfMatches(t) : \A n \in IfMatches(t) : Before(m, n)

\* the text flattenControlFlow puts in place of a match
Flattened(conditionVar, stateVar, condition, thenBlock, elseBlock) ==
  <<NL, KW_LOCAL, conditionVar, ASSIGN>> \o condition
    \o <<NL, KW_LOCAL, stateVar, ASSIGN, conditionVar, K_AND, 49, K_OR, 50, NL, NL,
         K_WHILE, stateVar, OP_NE, 48, K_DO, NL,
         K_IF, stateVar, OP_EQ, 49, K_THEN, NL>>
    \o thenBlock
    \o <<NL, stateVar, ASSIGN, 48, NL, K_ELSEIF, stateVar, OP_EQ, 50, K_THEN, NL>>
    \o elseBlock
    \o <<NL, stateVar, ASSIGN, 48, NL, K_END, NL, K_END>>

\* flattenControlFlow: result.replace(ifPattern, ...), left to right; an
\* "elseif" holds an "if" too
RECURSIVE flattenControlFlow(_, _, _)
flattenControlFlow(code, varCounter, rnd) ==
  IF code = <<>> THEN [code |-> <<>>, varCounter |-> varCounter]
  ELSE LET t == <<K_IF>> \o Tail(code)
       IN IF code[1] \in {K_IF, K_ELSEIF} /\ IfMatches(t) # {}
          THEN LET m == LazyMatch(t)
                   stateVar == generateVariableName(rnd, varCounter)
                   conditionVar == generateVariableName(rnd, varCounter + 1)
                   elseBlock == IF t[m[2]] = K_ELSE THEN SubSeq(t, m[2] + 1, m[3] - 1)
                                ELSE <<>>
                   rest == flattenControlFlow(SubSeq(t, m[3] + 1, Len(t)),
                                              varCounter + 2, rnd)
               IN [code |-> (IF code[1] = K_ELSEIF THEN <<K_ELSE>> ELSE <<>>)
                              \o Flattened(conditionVar, stateVar,
                                           SubSeq(t, 2, m[1] - 1),
                                           SubSeq(t, m[1] + 1, m[2] - 1), elseBlock)
                              \o rest.code,
                   varCounter |-> rest.varCounter]
          ELSE LET rest == flattenControlFlow(Tail(code), varCounter, rnd)
               IN [code |-> <<code[1]>> \o rest.code, varCounter |-> rest.varCounter]

encryptBytecode(code, key) ==
  <<BYTECODE_FN, QUOTE, B64_OPEN>> \o code
    \o <<B64_CLOSE, QUOTE, NL, BYTECODE_KEY, QUOTE, key, QUOTE, NL, BYTECODE_RUN>>

\* codeToVMInstructions, one line: line.match(/print\((.+)\)/), from the
\* first "print(" to the last ")" of the line
LineInstructions(line) ==
  LET i == IndexOf(line, PRINT_OPEN)
      j == IF \E k \in 1..Len(line) : line[k] = PAREN_CLOSE
           THEN CHOOSE k \in 1..Len(line) :
                  line[k] = PAREN_CLOSE /\ \A l \in (k + 1)..Len(line) : line[l] # PAREN_CLOSE
           ELSE 0
  IN IF i # 0 /\ j >= i + 2
     THEN <<VM_LOAD_PRINT, VM_LOAD>> \o SubSeq(line, i + 1, j - 1)
            \o <<VM_LOAD_CLOSE, VM_CALL1>>
     ELSE <<>>

codeToVMInstructions(code) ==
  LET lines == Split(code)
  IN Concat([k \in 1..Len(lines) |-> LineInstructions(lines[k])])

virtualize(code) == <<VM_PRELUDE>> \o codeToVMInstructions(code) \o <<VM_EXECUTE>>

addIntegrityChecks(code) ==
  <<INTEGRITY_FN, QUOTE, SHA_OPEN>> \o code \o <<SHA_CLOSE, QUOTE, INTEGRITY_CALL, NL>>
    \o code

wrapObfuscatedCode(code, date) ==
  <<WRAP_OPEN, date, NL, WRAP_BODY>> \o code \o <<WRAP_CLOSE>>

\* this.options.tier === 'premium'
premiumTier_ungated(options) == TRUE

premiumTier(options) == options.tier = "premium"

\* obfuscate(sourceCode) on the instance self, in the runtime rt.  A step
\* carries the local "obfuscated", the stages entered so far, the stage that
\* threw, and the instance's map and counter; once a stage has thrown no
\* later statement runs and nothing is returned.  encryptString throws where
\* the runtime's crypto has no createCipher.
obfuscate(self, sourceCode, rt) ==
  LET o == self.options
      enter(st, stage) == [st EXCEPT !.stages = Append(@, stage)]
      renamed(st, r) ==
        [st EXCEPT !.code = r.code, !.variableMap = r.variableMap,
                   !.varCounter = r.varCounter]
      flattened(st, r) == [st EXCEPT !.code = r.code, !.varCounter = r.varCounter]
      apply(st, stage) ==
        CASE stage = "encryptStrings" ->
               IF HasLiteral(st.code) /\ ~rt.createCipher
               THEN [st EXCEPT !.thrown = stage]
               ELSE [st EXCEPT !.code = encryptStrings(@, rt.rnd)]
          [] stage = "renameVariables" ->
               renamed(st, renameVariables(st.code, st.variableMap, st.varCounter, rt.rnd))
          [] stage = "addAntiDebugging" -> [st EXCEPT !.code = addAntiDebugging(@)]
          [] stage = "flattenControlFlow" ->
               flattened(st, flattenControlFlow(st.code, st.varCounter, rt.rnd))
          [] stage = "encryptBytecode" -> [st EXCEPT !.code = encryptBytecode(@, rt.rnd)]
          [] stage = "virtualize" -> [st EXCEPT !.code = virtualize(@)]
          [] stage = "addIntegrityChecks" -> [st EXCEPT !.code = addIntegrityChecks(@)]
          [] stage = "wrapObfuscatedCode" ->
               [st EXCEPT !.code = wrapObfuscatedCode(@, rt.date)]
      \* "if (on) { obfuscated = this.stage(obfuscated) }"
      step(st, on, stage) ==
        IF st.thrown # "none" \/ ~on THEN st ELSE apply(enter(st, stage), stage)
      s0 == [code |-> sourceCode, stages |-> <<>>, thrown |-> "none",
             variableMap |-> self.variableMap, varCounter |-> self.varCounter]
      s1 == step(s0, o.stringEncryption, "encryptStrings")
      s2 == step(s1, o.variableRenaming, "renameVariables")
      s3 == step(s2, o.antiDebugging, "addAntiDebugging")
      s4 == step(s3, premiumTier(o) /\ o.controlFlowFlattening, "flattenControlFlow")
      s5 == step(s4, premiumTier(o) /\ o.bytecodeEncryption, "encryptBytecode")
      s6 == step(s5, premiumTier(o) /\ o.virtualization, "virtualize")
      s7 == step(s6, o.integrityChecks, "addIntegrityChecks")
      s8 == step(s7, TRUE, "wrapObfuscatedCode")
  IN IF s8.thrown = "none" THEN s8 ELSE [s8 EXCEPT !.code = <<>>]

\* the sources of the model: local x = "a" and print(x) on two lines;
\* if c then print(1) else print(2) end
Sources ==
  {<<KW_LOCAL, ID_X, ASSIGN, QUOTE, 97, QUOTE, NL, PRINT_OPEN, ID_X, PAREN_CLOSE>>,
   <<K_IF, ID_C, K_THEN, PRINT_OPEN, 49, PAREN_CLOSE,
     K_ELSE, PRINT_OPEN, 50, PAREN_CLOSE, K_END>>}

\* what the runtime draws for crypto.randomBytes and Math.random in a call
Rnds == {1, 2}

NoResult == [code |-> <<>>, stages |-> <<>>, thrown |-> "none",
             variableMap |-> <<>>, varCounter |-> 0]

\* LuaObfuscator.obfuscate(code, options): a new instance, then obfuscate
Obfuscate ==
  /\ obf.pc = "called"
  /\ obf' = [obf EXCEPT !.pc = "done",
                        !.result = obfuscate(constructor(obf.options), obf.source, obf.rt)]
  /\ UNCHANGED <<gen, rec, trial>>
  /\ UNCHANGED srvVars
  /\ UNCHANGED ldrVars

\* the runtimes: crypto.createCipher exists up to node 21 and is gone from
\* node 22 on; the random draw and the clock of the call
Runtimes == [createCipher : BOOLEAN, rnd : Rnds, date : {0}]

InitObfuscator ==
  /\ ServerAtRest
  /\ LoaderIdle
  /\ gen = NoGen
  /\ rec = NoRec
  /\ trial = NoTrial
  /\ \E options \in RawOptions, source \in Sources, rt \in Runtimes :
       obf = [pc |-> "called", options |-> options, source |-> source, rt |-> rt,
              result |-> NoResult]

NextObfuscator == Obfuscate
SpecObfuscator == InitObfuscator /\ [][NextObfuscator]_vars

(* ---------------- the Lua that flattenControlFlow emits, run ---------------- *)

\* Lua values
LuaNil == [t |-> "nil", n |-> 0]
LuaBoolean(b) == [t |-> "boolean", n |-> IF b THEN 1 ELSE 0]
LuaNumber(k) == [t |-> "number", n |-> k]
Truthy(v) == ~(v.t = "nil" \/ (v.t = "boolean" /\ v.n = 0))

\* a chunk compiles only if each return is the last statement of its block
Compiles(code) ==
  \A i \in 1..Len(code) :
    code[i] = K_RETURN => (i = Len(code) \/ code[i + 1] \in {K_END, K_ELSE, K_ELSEIF})

\* the first position from j on, outside the blocks nested below the
\* starting one, of a token in stops; 0 when there is none
RECURSIVE Scan(_, _, _, _)
Scan(code, j, depth, stops) ==
  IF j > Len(code) THEN 0
  ELSE IF depth = 0 /\ code[j] \in stops THEN j
  ELSE IF code[j] \in {K_IF, K_WHILE} THEN Scan(code, j + 1, depth + 1, stops)
  ELSE IF code[j] = K_END THEN Scan(code, j + 1, depth - 1, stops)
  ELSE Scan(code, j + 1, depth, stops)

Lookup(env, name) == IF name \in DOMAIN env THEN env[name] ELSE LuaNil
Assign(env, name, v) ==
  [x \in DOMAIN env \cup {name} |-> IF x = name THEN v ELSE env[x]]

\* the expression at position i of the running chunk: its value, its
\* length and what evaluating it shows (the global c is the condition under
\* observation).  The forms: a and 1 or 2; a == k, a ~= k; a number; a name
ExprAt(m, i) ==
  LET code == m.code
      next == IF i + 1 <= Len(code) THEN code[i + 1] ELSE 0
      number(j) == code[j] - 48
  IN IF next = K_AND
     THEN [v |-> IF Truthy(Lookup(m.env, code[i])) THEN LuaNumber(number(i + 2))
                 ELSE LuaNumber(number(i + 4)),
           len |-> 5, shown |-> <<>>]
     ELSE IF next \in {OP_EQ, OP_NE}
     THEN [v |-> LuaBoolean((Lookup(m.env, code[i]) = LuaNumber(number(i + 2)))
                              = (next = OP_EQ)),
           len |-> 3, shown |-> <<>>]
     ELSE IF code[i] \in 48..57 THEN [v |-> LuaNumber(number(i)), len |-> 1, shown |-> <<>>]
     ELSE IF code[i] = ID_C THEN [v |-> m.c, len |-> 1, shown |-> <<ID_C>>]
     ELSE [v |-> Lookup(m.env, code[i]), len |-> 1, shown |-> <<>>]

\* one statement, or one step of an if, elseif, else, while or end, of the
\* running chunk
Step(m) ==
  LET code == m.code
      ip == m.ip
      tok == code[ip]
      top == m.stack[Len(m.stack)]
      popped == SubSeq(m.stack, 1, Len(m.stack) - 1)
  IN IF ip > Len(code) THEN [m EXCEPT !.status = "finished"]
     ELSE IF tok = KW_LOCAL THEN [m EXCEPT !.ip = ip + 1]
     ELSE IF tok = K_RETURN THEN [m EXCEPT !.status = "returned"]
     ELSE IF tok = PRINT_OPEN
     THEN LET e == ExprAt(m, ip + 1)
          IN [m EXCEPT !.out = @ \o e.shown \o <<PRINT_OPEN, e.v.n>>,
                       !.ip = ip + e.len + 2]
     ELSE IF tok = K_WHILE
     THEN LET e == ExprAt(m, ip + 1)
          IN IF Truthy(e.v)
             THEN [m EXCEPT !.out = @ \o e.shown, !.ip = ip + e.len + 2,
                            !.stack = Append(@, [k |-> "while", at |-> ip])]
             ELSE [m EXCEPT !.out = @ \o e.shown,
                            !.ip = Scan(code, ip + e.len + 2, 0, {K_END}) + 1]
     ELSE IF tok = K_IF \/ (tok = K_ELSEIF /\ m.test)
     THEN LET e == ExprAt(m, ip + 1)
              body == ip + e.len + 2
              branch == Scan(code, body, 0, {K_ELSEIF, K_ELSE, K_END})
          IN IF Truthy(e.v)
             THEN [m EXCEPT !.out = @ \o e.shown, !.ip = body, !.test = FALSE,
                            !.stack = Append(@, [k |-> "if", at |-> ip])]
             ELSE IF code[branch] = K_ELSEIF
             THEN [m EXCEPT !.out = @ \o e.shown, !.ip = branch, !.test = TRUE]
             ELSE IF code[branch] = K_ELSE
             THEN [m EXCEPT !.out = @ \o e.shown, !.ip = branch + 1, !.test = FALSE,
                            !.stack = Append(@, [k |-> "if", at |-> ip])]
             ELSE [m EXCEPT !.out = @ \o e.shown, !.ip = branch + 1, !.test = FALSE]
     ELSE IF tok \in {K_ELSEIF, K_ELSE}
     THEN [m EXCEPT !.ip = Scan(code, ip + 1, 0, {K_END}) + 1, !.stack = popped]
     ELSE IF tok = K_END
     THEN IF top.k = "while" THEN [m EXCEPT !.ip = top.at, !.stack = popped]
          ELSE [m EXCEPT !.ip = ip + 1, !.stack = popped]
     ELSE IF ip + 1 <= Len(code) /\ code[ip + 1] = ASSIGN
     THEN LET e == ExprAt(m, ip + 2)
          IN [m EXCEPT !.out = @ \o e.shown, !.env = Assign(@, tok, e.v),
                       !.ip = ip + e.len + 2]
     ELSE [m EXCEPT !.status = "error"]

RECURSIVE Run(_, _)
Run(m, fuel) ==
  IF m.status # "running" THEN m
  ELSE IF fuel = 0 THEN [m EXCEPT !.status = "out of steps"]
  ELSE Run(Step(m), fuel - 1)

\* a chunk loaded and run where the global c has the value c: what it
\* shows (each evaluation of c, each print with its argument), how it ends,
\* and its variables at the end
RunLua(chunk, c) ==
  LET notNL(tok) == tok # NL
      code == SelectSeq(chunk, notNL)
      m == [code |-> code, ip |-> 1, env |-> <<>>, out |-> <<>>, stack |-> <<>>,
            test |-> FALSE, c |-> c, status |-> "running"]
  IN IF Compiles(code) THEN Run(m, MaxSteps)
     ELSE [m EXCEPT !.status = "syntax error"]

\* the blocks of the model: up to MaxBlockLen print calls, then possibly a
\* return
Prints == UNION {[1..n -> {49, 50}] : n \in 0..MaxBlockLen}
Blocks ==
  {Concat([k \in 1..Len(p) |-> <<PRINT_OPEN, p[k], PAREN_CLOSE>>]) \o last :
     p \in Prints, last \in {<<>>, <<K_RETURN>>}} \ {<<>>}

\* if c then A else B end
IfElse(thenBlock, elseBlock) ==
  <<K_IF, ID_C, K_THEN>> \o thenBlock \o <<K_ELSE>> \o elseBlock \o <<K_END>>

NoRun == [status |-> "none", out |-> <<>>, env |-> <<>>]

\* flattenControlFlow(code) on a new instance
Flatten ==
  /\ obf.pc = "flatten"
  /\ obf' = [obf EXCEPT !.pc = "flattened",
                        !.flattened = flattenControlFlow(
                                        IfElse(obf.thenBlock, obf.elseBlock), 0, obf.rnd).code]
  /\ UNCHANGED <<gen, rec, trial>>
  /\ UNCHANGED srvVars
  /\ UNCHANGED ldrVars

\* the unit and its flattened form are each loaded and run
RunBoth ==
  /\ obf.pc = "flattened"
  /\ LET plain == RunLua(IfElse(obf.thenBlock, obf.elseBlock), obf.c)
         flat == RunLua(obf.flattened, obf.c)
     IN obf' = [obf EXCEPT !.pc = "ran",
                           !.plain = [status |-> plain.status, out |-> plain.out,
                                      env |-> plain.env],
                           !.flat = [status |-> flat.status, out |-> flat.out,
                                     env |-> flat.env]]
  /\ UNCHANGED <<gen, rec, trial>>
  /\ UNCHANGED srvVars
  /\ UNCHANGED ldrVars

InitFlatten ==
  /\ ServerAtRest
  /\ LoaderIdle
  /\ gen = NoGen
  /\ rec = NoRec
  /\ trial = NoTrial
  /\ \E thenBlock \in Blocks, elseBlock \in Blocks, rnd \in Rnds,
        c \in {LuaNil, LuaBoolean(FALSE), LuaBoolean(TRUE), LuaNumber(0)} :
       obf = [pc |-> "flatten", thenBlock |-> thenBlock, elseBlock |-> elseBlock,
              c |-> c, rnd |-> rnd, flattened |-> <<>>, plain |-> NoRun, flat |-> NoRun]

NextFlatten ==
  \/ Flatten
  \/ RunBoth

SpecFlatten == InitFlatten /\ [][NextFlatten]_vars

(* ---------------- string encryption, and the emitted decrypt function ---------------- *)

KeyBytes == 16                      \* crypto.randomBytes(16)
CipherBlock == 16                   \* the block of aes-256-cbc, in bytes
COLON == 58                         \* ':'

\* toString('hex'): two lower-case digits for each byte
HexDigit(n) == IF n < 10 THEN 48 + n ELSE 87 + n
toHex(bytes) ==
  [k \in 1..(2 * Len(bytes)) |->
     LET b == bytes[(k + 1) \div 2]
     IN HexDigit(IF k % 2 = 1 THEN b \div 16 ELSE b % 16)]

\* toString('base64'): four characters for three bytes, '=' for what the
\* last group lacks
B64Char(i) ==
  IF i < 26 THEN 65 + i
  ELSE IF i < 52 THEN 71 + i
  ELSE IF i < 62 THEN i - 4
  ELSE IF i = 62 THEN 43 ELSE 47

toBase64(bytes) ==
  LET n == Len(bytes)
      at(i) == IF i > n THEN 0 ELSE bytes[i]
      char(g, c) ==
        LET b1 == at(3 * g + 1)
            b2 == at(3 * g + 2)
            b3 == at(3 * g + 3)
        IN CASE c = 0 -> B64Char(b1 \div 4)
             [] c = 1 -> B64Char((b1 % 4) * 16 + b2 \div 16)
             [] c = 2 -> IF 3 * g + 2 > n THEN PadChar
                         ELSE B64Char((b2 % 16) * 4 + b3 \div 64)
             [] c = 3 -> IF 3 * g + 3 > n THEN PadChar ELSE B64Char(b3 % 64)
  IN [k \in 1..(4 * ((n + 2) \div 3)) |-> char((k - 1) \div 4, (k - 1) % 4)]

\* cipher.update(str) + cipher.final(): the padded text encrypted block by
\* block.  The bytes of the cipher text are not computed: block stands for
\* what the cipher gives, the length is the cipher's.
cipherText(str, block) ==
  [i \in 1..(CipherBlock * (Len(str) \div CipherBlock + 1)) |->
     block[((i - 1) % CipherBlock) + 1]]

\* encryptString(str) down to the characters of its result, with the key and
\* iv drawn for it
encryptStringBytes(str, key, iv, block) ==
  toBase64(toHex(key) \o <<COLON>> \o toHex(iv) \o <<COLON>> \o toHex(cipherText(str, block)))

\* decoded:gmatch("[^:]+"): the non-empty runs between colons
Parts(s) ==
  LET n == Len(s)
      colon(i) == i = 0 \/ i = n + 1 \/ s[i] = COLON
      starts == {i \in 1..n : ~colon(i) /\ colon(i - 1)}
      last(i) == CHOOSE j \in i..n : colon(j + 1) /\ \A k \in i..j : ~colon(k)
      nth(k) == CHOOSE i \in starts : Cardinality({j \in starts : j < i}) = k - 1
  IN [k \in 1..Cardinality(starts) |-> SubSeq(s, nth(k), last(nth(k)))]

\* the Lua that loads the output: the binary operator ~ of the decrypt
\* function exists from Lua 5.3 on, and not in Lua 5.1, LuaJIT or Luau
LuaVersions == {"Lua 5.1", "Lua 5.3"}
HasBitwiseOperators(lua) == lua = "Lua 5.3"

\* _G._EC_decrypt(encrypted) of the emitted decrypt function: base64_decode
\* and the XOR loop are those of the loader, character for character
EC_decrypt(encrypted, lua) ==
  IF ~HasBitwiseOperators(lua) THEN [status |-> "syntax error", value |-> <<>>]
  ELSE LET parts == Parts(base64Decode(encrypted))
       IN IF Len(parts) < 3 THEN [status |-> "error", value |-> <<>>]
          ELSE [status |-> "returned", value |-> xorDecrypt(parts[3], parts[1])]

\* the literals, keys, ivs and cipher blocks of the model
LiteralChars == {97, 98, COLON}
Literals == UNION {[1..n -> LiteralChars] : n \in 0..MaxLiteralLen}
RandomBytes == {[i \in 1..KeyBytes |-> 0], [i \in 1..KeyBytes |-> (17 * i) % 256]}
CipherBlocks ==
  {[i \in 1..CipherBlock |-> 0], [i \in 1..CipherBlock |-> 255],
   [i \in 1..CipherBlock |-> (37 * i) % 256]}

NoValueReturned == [status |-> "none", value |-> <<>>]

\* encryptString(str) for a literal that encryptStrings found
EncryptString ==
  /\ obf.pc = "encrypt"
  /\ obf' = [obf EXCEPT !.pc = "encrypted",
                        !.encrypted = encryptStringBytes(obf.str, obf.key, obf.iv, obf.block)]
  /\ UNCHANGED <<gen, rec, trial>>
  /\ UNCHANGED srvVars
  /\ UNCHANGED ldrVars

\* the output is loaded and runs _G._EC_decrypt("<encrypted>")
DecryptString ==
  /\ obf.pc = "encrypted"
  /\ obf' = [obf EXCEPT !.pc = "decrypted",
                        !.decrypted = EC_decrypt(obf.encrypted, obf.lua)]
  /\ UNCHANGED <<gen, rec, trial>>
  /\ UNCHANGED srvVars
  /\ UNCHANGED ldrVars

InitStrings ==
  /\ ServerAtRest
  /\ LoaderIdle
  /\ gen = NoGen
  /\ rec = NoRec
  /\ trial = NoTrial
  /\ \E str \in Literals, key \in RandomBytes, iv \in RandomBytes,
        block \in CipherBlocks, lua \in LuaVersions :
       obf = [pc |-> "encrypt", str |-> str, key |-> key, iv |-> iv, block |-> block,
              lua |-> lua, encrypted |-> <<>>, decrypted |-> NoValueReturned]

NextStrings ==
  \/ EncryptString
  \/ DecryptString

SpecStrings == InitStrings /\ [][NextStrings]_vars

(* ---------------- one LuaObfuscator instance, called more than once ---------------- *)

\* the sources given to the calls: those of Sources, and print(x) with x a
\* global of the unit
InstanceSources == Sources \cup {<<PRINT_OPEN, ID_X, PAREN_CLOSE>>}

\* the options the instance is made with: the defaults, with the tier and
\* control-flow flattening left out or given
InstanceOptions ==
  {o \in RawOptions :
     /\ o.tier \in {"absent", "premium"}
     /\ o.controlFlowFlattening \in {"absent", "true"}
     /\ \A f \in {"stringEncryption", "variableRenaming", "antiDebugging",
                  "bytecodeEncryption", "virtualization", "integrityChecks"} :
          o[f] = "absent"}

\* a call as it is recorded: the maps and counters it started from, and
\* what it gave
Called(static, self, source, rt) ==
  LET r == obfuscate(self, source, rt)
  IN [static |-> static, source |-> source, rt |-> rt,
      variableMap |-> self.variableMap, varCounter |-> self.varCounter,
      code |-> r.code, thrown |-> r.thrown]

\* obfuscator.obfuscate(code) on the instance: this.variableMap and
\* this.varCounter are left as the call's stages set them
InstanceObfuscate(source, rt) ==
  /\ obf.pc = "ready"
  /\ Len(obf.calls) < MaxCalls
  /\ LET r == obfuscate(obf.self, source, rt)
     IN obf' = [obf EXCEPT !.calls = Append(@, Called(FALSE, obf.self, source, rt)),
                           !.self = [@ EXCEPT !.variableMap = r.variableMap,
                                              !.varCounter = r.varCounter]]
  /\ UNCHANGED <<gen, rec, trial>>
  /\ UNCHANGED srvVars
  /\ UNCHANGED ldrVars

\* LuaObfuscator.obfuscate(code, options): a new instance for the call
StaticObfuscate(source, rt) ==
  /\ obf.pc = "ready"
  /\ Len(obf.calls) < MaxCalls
  /\ obf' = [obf EXCEPT !.calls =
               Append(@, Called(TRUE, constructor(obf.options), source, rt))]
  /\ UNCHANGED <<gen, rec, trial>>
  /\ UNCHANGED srvVars
  /\ UNCHANGED ldrVars

InitInstance ==
  /\ ServerAtRest
  /\ LoaderIdle
  /\ gen = NoGen
  /\ rec = NoRec
  /\ trial = NoTrial
  /\ \E options \in InstanceOptions :
       obf = [pc |-> "ready", options |-> options, self |-> constructor(options),
              calls |-> <<>>]

NextInstance ==
  \/ \E source \in InstanceSources, rt \in Runtimes : InstanceObfuscate(source, rt)
  \/ \E source \in InstanceSources, rt \in Runtimes : StaticObfuscate(source, rt)

SpecInstance == InitInstance /\ [][NextInstance]_vars

(* ------------- the generated stack machine, run on a unit -------------- *)

\* Lua values of a run: numbers, and the functions print and c (c is a global
\* function of the host)
Number(n) == [t |-> "number", v |-> n, name |-> ""]
Function(name) == [t |-> "function", v |-> 0, name |-> name]
LuaPrint == Function("print")
GlobalC == Function("c")

\* the lines of the model: print(1), print(2), print(c), and x = 1
VMLines ==
  {<<PRINT_OPEN, 49, PAREN_CLOSE>>, <<PRINT_OPEN, 50, PAREN_CLOSE>>,
   <<PRINT_OPEN, ID_C, PAREN_CLOSE>>, <<ID_X, ASSIGN, 49>>}
VMSources ==
  {Join(ls) : ls \in UNION {[1..n -> VMLines] : n \in 1..MaxVMLines}}

\* the value of an expression of the model: a numeral, or the global c
ValueOf(e) == IF e = <<ID_C>> THEN GlobalC ELSE Number(e[1] - 48)

\* the table that "_EC_VM.instructions = {...}" builds when the unit runs:
\* one entry per emitted instruction, each loaded expression evaluated
InstructionTable(unit) ==
  LET at == SelectSeq([k \in 1..Len(unit) |-> k],
                      LAMBDA k : unit[k] \in {VM_LOAD_PRINT, VM_LOAD, VM_CALL1})
      closeOf(k) == CHOOSE j \in (k + 1)..Len(unit) :
                      unit[j] = VM_LOAD_CLOSE
                      /\ \A l \in (k + 1)..(j - 1) : unit[l] # VM_LOAD_CLOSE
  IN [n \in 1..Len(at) |->
        CASE unit[at[n]] = VM_LOAD_PRINT -> [op |-> "LOAD", value |-> LuaPrint, n |-> 0]
          [] unit[at[n]] = VM_LOAD ->
               [op |-> "LOAD", value |-> ValueOf(SubSeq(unit, at[n] + 1, closeOf(at[n]) - 1)),
                n |-> 0]
          [] OTHER -> [op |-> "CALL", value |-> Number(0), n |-> 1]]

\* one turn of the while loop of _EC_VM:execute on the machine m; a call of
\* print returns nothing, a call of c returns cResult (nothing when it is
\* the empty sequence), a call of a value that is no function raises
ExecuteTurn(m, cResult) ==
  LET instr == m.instructions[m.pc]
  IN CASE instr.op = "LOAD" ->
            [m EXCEPT !.stack = Append(@, instr.value), !.pc = @ + 1]
       [] instr.op = "CALL" ->
            LET func == m.stack[Len(m.stack)]
                below == SubSeq(m.stack, 1, Len(m.stack) - 1)
                take == IF instr.n <= Len(below) THEN instr.n ELSE Len(below)
                args == SubSeq(below, Len(below) - take + 1, Len(below))
                left == SubSeq(below, 1, Len(below) - take)
            IN IF func.t # "function"
               THEN [m EXCEPT !.stack = left, !.raised = TRUE]
               ELSE [m EXCEPT !.stack = left \o (IF func = LuaPrint THEN <<>> ELSE cResult),
                              !.calls = Append(@, [func |-> func, args |-> args]),
                              !.pc = @ + 1]
       [] OTHER -> [m EXCEPT !.pc = instr.n]

\* the calls the unit itself makes: print with the value of e, once for each
\* line print(e), in the order of the lines
IsPrintLine(line) == Len(line) = 3 /\ line[1] = PRINT_OPEN /\ line[3] = PAREN_CLOSE
CallsOfUnit(code) ==
  LET lines == SelectSeq(Split(code), IsPrintLine)
  IN [k \in 1..Len(lines) |-> [func |-> LuaPrint, args |-> <<ValueOf(<<lines[k][2]>>)>>]]

Virtualize ==
  /\ obf.pc = "source"
  /\ obf' = [obf EXCEPT !.pc = "virtualized", !.unit = virtualize(obf.source)]
  /\ UNCHANGED <<gen, rec, trial>>
  /\ UNCHANGED srvVars
  /\ UNCHANGED ldrVars

\* the unit runs up to its last statement: _EC_VM is made and its
\* instructions are assigned
LoadUnit ==
  /\ obf.pc = "virtualized"
  /\ obf' = [obf EXCEPT !.pc = "execute",
                        !.vm = [stack |-> <<>>, pc |-> 1, raised |-> FALSE, calls |-> <<>>,
                                instructions |-> InstructionTable(obf.unit)]]
  /\ UNCHANGED <<gen, rec, trial>>
  /\ UNCHANGED srvVars
  /\ UNCHANGED ldrVars

ExecuteStep ==
  /\ obf.pc = "execute"
  /\ obf.vm.pc <= Len(obf.vm.instructions)
  /\ LET m == ExecuteTurn(obf.vm, obf.cResult)
     IN obf' = [obf EXCEPT !.vm = m, !.pc = IF m.raised THEN "raised" ELSE "execute"]
  /\ UNCHANGED <<gen, rec, trial>>
  /\ UNCHANGED srvVars
  /\ UNCHANGED ldrVars

ExecuteReturn ==
  /\ obf.pc = "execute"
  /\ obf.vm.pc > Len(obf.vm.instructions)
  /\ obf' = [obf EXCEPT !.pc = "returned"]
  /\ UNCHANGED <<gen, rec, trial>>
  /\ UNCHANGED srvVars
  /\ UNCHANGED ldrVars

InitVM ==
  /\ ServerAtRest
  /\ LoaderIdle
  /\ gen = NoGen
  /\ rec = NoRec
  /\ trial = NoTrial
  /\ \E source \in VMSources, cResult \in {<<>>, <<Number(0)>>} :
       obf = [pc |-> "source", source |-> source, cResult |-> cResult, unit |-> <<>>,
              vm |-> [stack |-> <<>>, pc |-> 1, raised |-> FALSE, calls |-> <<>>,
                      instructions |-> <<>>]]

NextVM ==
  \/ Virtualize
  \/ LoadUnit
  \/ ExecuteStep
  \/ ExecuteReturn

SpecVM == InitVM /\ [][NextVM]_vars

(* ---------------- properties of the validation service ---------------- *)

Responded(r) == req[r].pc = "done"
Ended(r) == req[r].pc \in {"done", "crashed"}
Body(r) == req[r].resp.body
IsValidTrue(r) == Responded(r) /\ Body(r).valid
Rejected(r) == Responded(r) /\ ~Body(r).valid
ErrorOf(r) == IF Rejected(r) THEN Body(r).error ELSE ""
EventsOf(r) == {i \in DOMAIN analytics : analytics[i].req = r}
Successes(h) == Cardinality({i \in DOMAIN h : h[i].success})

\* C1: whatever branch answers a request, a response carries the payload
\* (code, keyInfo) only when its valid is true
C1_PayloadOnlyWhenValid ==
  \A r \in Reqs :
    ("code" \in DOMAIN Body(r) \/ "keyInfo" \in DOMAIN Body(r))
      => ("valid" \in DOMAIN Body(r) /\ Body(r).valid)

\* one request was answered with the payload and another was rejected
C1_Witness ==
  \E r, q \in Reqs :
    /\ IsValidTrue(r) /\ "code" \in DOMAIN Body(r)
    /\ Rejected(q) /\ req[q].resp.status = 401

\* C2: of the requests that present one key with maxActivations = 1 and no
\* prior activation, never two or more are answered valid:true, and when all
\* of them are acceptable but for the limit exactly one is
C2_ExactlyOneSuccess ==
  \A k \in KeyIds :
    keys[k].maxActivations = 1 =>
      LET ok == {r \in Reqs : req[r].key = k /\ IsValidTrue(r)}
      IN /\ Cardinality(ok) <= 1
         /\ (\A r \in Reqs : Responded(r) /\ req[r].key = k
                               /\ ErrorOf(r) \in {"", "Activation limit reached"})
              => Cardinality(ok) = 1

\* the checks of the handler in the order the service documents, each on
\* the request and on the documents the handler loaded
C3_Missing(r) == req[r].hdr.projectId = "" \/ req[r].hdr.userKey = ""
C3_NoProject(r) ==
  \/ req[r].hdr.projectId \notin ProjectIds
  \/ ~projects[req[r].hdr.projectId].isActive
C3_NoKey(r) ==
  ~\E k \in KeyIds : /\ keys[k].keyString = req[r].hdr.userKey
                     /\ keys[k].project = req[r].hdr.projectId
C3_PastExpiry(r) ==
  req[r].read.expiresAt # NoDate /\ req[r].at > req[r].read.expiresAt
C3_Invalid(r) ==
  req[r].read.status # "active" \/ req[r].read.isBanned \/ C3_PastExpiry(r)
C3_InvalidReason(r) ==
  IF req[r].read.status = "banned" THEN "Key is banned"
  ELSE IF C3_PastExpiry(r) THEN "Key has expired"
  ELSE "Key is invalid"
C3_Mismatch(r) ==
  req[r].read.linkedUserId # "" /\ req[r].read.linkedUserId # req[r].hdr.userId
C3_Tamper(r) ==
  /\ req[r].read.allowedIPs # {} /\ req[r].hdr.ip \notin req[r].read.allowedIPs
  /\ req[r].hdr.userKey = TAMPER
C3_Limit(r) ==
  /\ req[r].read.maxActivations # NoLimit
  /\ req[r].read.totalActivations >= req[r].read.maxActivations

C3_Expected(r) ==
  IF C3_Missing(r) THEN "Missing required headers"
  ELSE IF C3_NoProject(r) THEN "Project not found"
  ELSE IF C3_NoKey(r) THEN "Invalid key"
  ELSE IF C3_Invalid(r) THEN C3_InvalidReason(r)
  ELSE IF C3_Mismatch(r) THEN "Key not authorized for this user"
  ELSE IF C3_Tamper(r) THEN "Access denied"
  ELSE IF C3_Limit(r) THEN "Activation limit reached"
  ELSE ""

\* C3: the checks apply in the order missing headers, deployment, credential
\* lookup, credential validity, caller identity, tamper, activation limit;
\* the first one that fails alone gives the rejection reason, and valid:true
\* is answered only when none fails
C3_FirstFailingCheckDecides ==
  \A r \in Reqs :
    Responded(r) =>
      /\ ErrorOf(r) = C3_Expected(r)
      /\ IsValidTrue(r) <=> C3_Expected(r) = ""

\* an expired key presented by another caller than the linked one was
\* rejected as expired
C3_Witness ==
  \E r \in Reqs :
    /\ Responded(r) /\ req[r].key # Null
    /\ req[r].read.status = "active" /\ C3_PastExpiry(r) /\ C3_Mismatch(r)
    /\ ErrorOf(r) = "Key has expired"

\* C4: a request that presents a key whose stored status is banned is
\* answered valid:false with 'Key is banned', whatever its other headers and
\* however many requests came before
C4_BannedAlwaysRejected ==
  \A r \in Reqs :
    (Responded(r) /\ req[r].key # Null /\ req[r].read.status = "banned")
      => (Rejected(r) /\ ErrorOf(r) = "Key is banned")

\* the second of two requests presenting a banned, expired key from an
\* origin that is not allowed and without the linked identity
C4_Witness ==
  \E r, q \in Reqs :
    /\ q < r /\ Responded(q) /\ Responded(r)
    /\ req[q].read.status = "banned" /\ req[r].read.status = "banned"
    /\ C3_Mismatch(r) /\ C3_PastExpiry(r)
    /\ req[r].read.allowedIPs # {} /\ req[r].hdr.ip \notin req[r].read.allowedIPs
    /\ ErrorOf(r) = "Key is banned"

C6_NoLostIncrement ==
  \A k \in KeyIds :
    (/\ keys[k].maxActivations = NoLimit
     /\ \A r \in Reqs : req[r].key = k /\ IsValidTrue(r))
      => keys[k].totalActivations = NumReqs

\* C7: a request never has two events, and once its handler has ended, with
\* a response or not, it has exactly one
C7_OneEventPerRequest ==
  \A r \in Reqs :
    /\ Cardinality(EventsOf(r)) <= 1
    /\ Ended(r) => Cardinality(EventsOf(r)) = 1

\* C8: after a request that presents the sentinel for an active project with
\* a caller identity has been answered (no database fault, no administrator
\* at work), the request is rejected and every key linked to that identity
\* is banned
C8_SentinelBansLinkedKeys ==
  \A r \in Reqs :
    (/\ Responded(r) /\ req[r].resp.status # 500 /\ adminOps = 0
     /\ req[r].hdr.userKey = TAMPER /\ req[r].hdr.userId # ""
     /\ ~C3_NoProject(r))
      => /\ Rejected(r)
         /\ \A k \in KeyIds :
              keys[k].linkedUserId = req[r].hdr.userId => keys[k].status = "banned"

(* ---------------- properties of the loader ---------------- *)

PastLimitCheck(i) == inv[i].pc # "idle" /\ inv[i].phase # "limit"
ReachedSandbox(i) == inv[i].phase = "execute"

\* C9: over the invocations of validateAndExecute on one loader, at most
\* MAX_EXECUTIONS get past the execution counter, so at most MAX_EXECUTIONS
\* reach sandbox execution; every invocation past the maximum stops at the
\* counter, returns false and has sent no request
C9_AtMostMaxExecutions ==
  /\ Cardinality({i \in Invs : PastLimitCheck(i)}) <= MAX_EXECUTIONS
  /\ Cardinality({i \in Invs : ReachedSandbox(i)}) <= MAX_EXECUTIONS
  /\ \A i \in Invs :
       (inv[i].pc # "idle" /\ inv[i].count > MAX_EXECUTIONS)
         => /\ inv[i].pc = "ended" /\ inv[i].phase = "limit"
            /\ inv[i].result = "false"
            /\ hs[i] = NoFrame

\* an invocation past the maximum has returned false at the counter, after
\* an earlier one had got past it
C9_Witness ==
  \E i, j \in Invs :
    /\ PastLimitCheck(i)
    /\ inv[j].count = MAX_EXECUTIONS + 1 /\ inv[j].phase = "limit"
    /\ inv[j].result = "false" /\ hs[j].sent = 0

\* C10: one call of makeSecureRequest issues at most 3 requests and never
\* ends by raising; every attempt that is followed by a wait or by a further
\* attempt ended in a network failure; there are waits only between
\* attempts; a decoded valid:false response is the last attempt and the
\* call has returned
C10_HandshakeBoundedAndReturns ==
  \A c \in Callers :
    LET f == hs[c]
        n == Len(f.outcomes)
    IN /\ f.sent <= Retries
       /\ f.pc # "raised"
       /\ \A k \in 1..n : (k < f.sent \/ f.pc = "wait") => f.outcomes[k] = "netfail"
       /\ f.pc \in {"http", "returned"} => f.waits = f.sent - 1
       /\ f.pc = "wait" => f.waits = f.sent /\ f.sent < Retries
       /\ \A k \in 1..n : f.outcomes[k] = "invalid" => k = n /\ f.pc = "returned"

\* the plaintext the loader obtains from a response's code with its key
DecryptedOf(code, key) == xorDecrypt(base64Decode(code.bytes), key.bytes)

\* C11: a response's payload is passed to executeSecureCode only when
\* payload and key are present and the checksum recomputed over the
\* decrypted text equals CONFIG.INTEGRITY_HASH; with a checksum mismatch or
\* a missing payload or key the steps return false and executeSecureCode is
\* not called
C11_ExecuteOnlyAfterChecksum ==
  pay.pc = "returned" =>
    LET code == pay.response.code
        key == lenv.OBFUSCATION_KEY
        matches == /\ ~code.nil /\ ~key.nil
                   /\ codeHash(DecryptedOf(code, key)) = lenv.INTEGRITY_HASH
    IN /\ pay.phase = "execute" => matches
       /\ (pay.response.valid /\ ~matches)
            => (pay.result = "false" /\ pay.phase = "decrypt")

\* the payload "QQ==" decrypted with key "1" to "p", whose checksum 112 is
\* the embedded one, was passed on and ran
C11_Witness ==
  /\ pay.pc = "returned" /\ pay.phase = "execute" /\ pay.result = "true"
  /\ pay.response.code = Str(<<81, 81, 61, 61>>)
  /\ DecryptedOf(pay.response.code, lenv.OBFUSCATION_KEY) = <<112>>
  /\ lenv.INTEGRITY_HASH = <<49, 49, 50>>

\* the monitoring loop has run at least one of its checks
MonitorHasChecked == mon.checks > 0
\* the monitor found an integrity mismatch or a fingerprint delta above the
\* threshold: it is sending its report, or it has left the loop
MonitorDetected == mon.pc \in {"handshake", "stopped"}
IdentityKnown == lenv.localPlayer # ""

\* C12: an invocation has sent a handshake request only if it got past its
\* integrity check and its anti-debug checks, it is at the decrypt phase only
\* after its handshake and at sandbox execution only after the decrypt, and
\* the monitoring loop runs its checks only after an invocation has reached
\* sandbox execution
C12_PhaseOrder ==
  /\ \A i \in Invs :
       /\ hs[i].sent > 0 => inv[i].phase \in {"handshake", "decrypt", "execute"}
       /\ inv[i].phase \in {"decrypt", "execute"} => hs[i].pc = "returned"
  /\ MonitorHasChecked => \E i \in Invs : ReachedSandbox(i)

\* C13: an invocation of validateAndExecute that has ended has returned
\* true or false; none has ended by raising an error
C13_AlwaysReturnsBoolean ==
  \A i \in Invs : inv[i].pc = "ended" => inv[i].result \in {"true", "false"}

\* C14: once the monitor has found an integrity mismatch or a fingerprint
\* delta above the threshold it runs no further check, and it has sent a
\* tamper report exactly when a caller identity is known
C14_MonitorStopsAndReports ==
  /\ mon.pc = "handshake" => IdentityKnown
  /\ mon.pc = "stopped" => (hs[Monitor].sent > 0 <=> IdentityKnown)
  /\ MonitorDetected => ~ENABLED MonitorCheck

(* ---------------- properties of the loader generator ---------------- *)

\* the codes of a string.char(c1, c2, ...) call, read up to its ")"
RECURSIVE ParseCodes(_, _, _)
ParseCodes(t, cur, out) ==
  IF t = <<>> \/ t[1] = CLOSE THEN Append(out, cur)
  ELSE IF t[1] = SEP THEN ParseCodes(Tail(t), 0, Append(out, cur))
  ELSE ParseCodes(Tail(t), cur * 10 + (t[1] - 48), out)

\* the value the generated loader's LOADER_HASH is initialised with: the
\* string expression that follows the identifier in its declaration
EmbeddedLoaderHash(loader) ==
  LET i == IF IndexOf(loader, ID_LOADER_HASH) # 0 THEN IndexOf(loader, ID_LOADER_HASH)
           ELSE IndexOf(loader, RENAMED + 1)
      expr == SubSeq(loader, i + 1, Len(loader))
  IN IF expr[1] = QUOTE
     THEN SubSeq(expr, 2, IndexOf(Tail(expr), QUOTE))
     ELSE ParseCodes(Tail(expr), 0, <<>>)

\* C15: the artifact returned by generateLoader embeds, as the value of
\* LOADER_HASH, the hash that generateIntegrityHash (and so the loader's
\* own recomputation) yields over the artifact's final text
C15_EmbeddedHashIsHashOfFinalText ==
  gen.pc = "generated" =>
    EmbeddedLoaderHash(gen.out.loader) = generateIntegrityHash(gen.out.loader)

\* C16: the payload the validation service returns for a deployment, once
\* decoded and decrypted by the deployment's generated loader, has the
\* checksum the generator embedded in that loader, and the loader accepts
\* it and hands it to execution
C16_LoaderAcceptsServedPayload ==
  pay.pc = "returned" =>
    /\ codeHash(DecryptedOf(pay.response.code, lenv.OBFUSCATION_KEY)) = lenv.INTEGRITY_HASH
    /\ pay.phase = "execute"

(* ---------------- properties of the obfuscation engine ---------------- *)

\* the stages in the fixed order of the pipeline
StageOrder ==
  <<"encryptStrings", "renameVariables", "addAntiDebugging", "flattenControlFlow",
    "encryptBytecode", "virtualize", "addIntegrityChecks">>

PremiumFlags == {"controlFlowFlattening", "bytecodeEncryption", "virtualization"}

\* the option that switches a stage on
FlagOf(stage) ==
  CASE stage = "encryptStrings" -> "stringEncryption"
    [] stage = "renameVariables" -> "variableRenaming"
    [] stage = "addAntiDebugging" -> "antiDebugging"
    [] stage = "flattenControlFlow" -> "controlFlowFlattening"
    [] stage = "encryptBytecode" -> "bytecodeEncryption"
    [] stage = "virtualize" -> "virtualization"
    [] stage = "addIntegrityChecks" -> "integrityChecks"

\* a stage is enabled in a configuration: its flag is on and, for a
\* premium-only stage, the tier is premium
EnabledStage(config, stage) ==
  /\ config[FlagOf(stage)]
  /\ FlagOf(stage) \in PremiumFlags => config.tier = "premium"

EnabledStages(config) ==
  LET on(stage) == EnabledStage(config, stage)
  IN SelectSeq(StageOrder, on)

\* C17: for every configuration, obfuscate applies exactly the enabled
\* stages, in the fixed order string encryption, identifier renaming,
\* anti-debug injection, control-flow flattening, bytecode packing,
\* virtualization, integrity stamp, each once, and then the protective
\* wrapper once as the last step, also when every flag is false
C17_StagesInOrderThenWrapper ==
  obf.pc = "done" =>
    obf.result.stages =
      EnabledStages(constructor(obf.options).options) \o <<"wrapObfuscatedCode">>

\* C18: with tier standard each premium-only flag is ignored: for the same
\* source and the same random choices, the stages run and the output are
\* the same with the flag true and with the flag false, and the flag raises
\* no error (the call with the flag throws only where the call without it
\* throws)
C18_PremiumFlagsIgnoredOnStandard ==
  obf.pc = "done" /\ constructor(obf.options).options.tier = "standard" =>
    \A flag \in PremiumFlags :
      LET with == obfuscate(constructor([obf.options EXCEPT ![flag] = "true"]),
                            obf.source, obf.rt)
          without == obfuscate(constructor([obf.options EXCEPT ![flag] = "false"]),
                               obf.source, obf.rt)
      IN /\ with.stages = without.stages
         /\ with.code = without.code
         /\ with.thrown = without.thrown
         /\ obf.result \in {with, without}

\* a standard-tier call that asked for virtualization and returned a
\* result without it
C18_Witness ==
  /\ obf.pc = "done"
  /\ obf.options.tier = "standard"
  /\ obf.options.virtualization = "true"
  /\ HasLiteral(obf.source)
  /\ obf.result.thrown = "none"
  /\ \A k \in 1..Len(obf.result.stages) : obf.result.stages[k] # "virtualize"

\* C19: when an enabled stage raises an internal fault, obfuscate does not
\* abort: the remaining enabled stages and the wrapper run on the unit the
\* faulting stage was given, and obfuscate returns that result
C19_StageFaultDoesNotAbort ==
  obf.pc = "done" /\ obf.result.thrown # "none" =>
    LET without == [obf.options EXCEPT ![FlagOf(obf.result.thrown)] = "false"]
        passed == obfuscate(constructor(without), obf.source, obf.rt)
    IN /\ obf.result.code = passed.code
       /\ obf.result.stages[Len(obf.result.stages)] = "wrapObfuscatedCode"

\* what running a block shows when it runs to its end
Shown(block) ==
  LET printed(tok) == tok \in {PRINT_OPEN, 49, 50}
      args == SelectSeq(block, printed)
  IN [k \in 1..Len(args) |-> IF args[k] = PRINT_OPEN THEN PRINT_OPEN ELSE args[k] - 48]

\* C20: for a single-level if c then A else B end and a fixed value of c,
\* the dispatch loop that flattenControlFlow emits evaluates c once, runs
\* exactly one of A and B once (A when c is truthy, B otherwise), sets the
\* state variable to 0 and terminates, and shows what the unit itself shows
C20_FlattenedRunsOneBranchOnce ==
  obf.pc = "ran" =>
    /\ obf.flat.out = <<ID_C>> \o Shown(IF Truthy(obf.c) THEN obf.thenBlock
                                       ELSE obf.elseBlock)
    /\ obf.flat.out = obf.plain.out
    /\ obf.flat.status = obf.plain.status
    /\ obf.flat.status = "finished" =>
         Lookup(obf.flat.env, generateVariableName(obf.rnd, 0)) = LuaNumber(0)

\* C21: for every literal that the string-encryption stage rewrites, the
\* decrypt function emitted into the output gives back the literal:
\* decrypt(encrypt(s)) = s, whatever key was drawn.
C21_DecryptInvertsEncrypt ==
  obf.pc = "decrypted" =>
    /\ obf.decrypted.status = "returned"
    /\ obf.decrypted.value = obf.str

\* C22: obfuscation runs are stateless between calls: every call of
\* obfuscate, through the static method or on an instance that was called
\* before, starts from an empty identifier map and a counter of 0, and gives
\* what a call on a new instance gives for the same source and the same
\* random draws.
C22_RunsAreStateless ==
  obf.pc = "ready" =>
    \A k \in 1..Len(obf.calls) :
      LET call == obf.calls[k]
          fresh == obfuscate(constructor(obf.options), call.source, call.rt)
      IN /\ call.variableMap = <<>>
         /\ call.varCounter = 0
         /\ call.code = fresh.code
         /\ call.thrown = fresh.thrown

\* C23: a validation that loads a key with status active and a passed
\* expiry date is rejected with 'Key has expired', and its save leaves the
\* stored status at expired; a validation that loads the key with status
\* expired is rejected with 'Key has expired' too; and no step moves a key
\* without expiry date to expired.
C23_ExpiredLazily ==
  /\ [](\A r \in Reqs :
          (/\ Responded(r)
           /\ req[r].key # Null
           /\ \/ req[r].read.status = "active" /\ C3_PastExpiry(r)
              \/ req[r].read.status = "expired")
            => (Rejected(r) /\ ErrorOf(r) = "Key has expired"))
  /\ [][\A r \in Reqs :
          (/\ req[r].pc = "saveKey"
           /\ req'[r].pc = "done"
           /\ req[r].read.status = "active"
           /\ C3_PastExpiry(r))
            => keys'[req[r].key].status = "expired"]_vars
  /\ [][\A k \in KeyIds :
          (keys[k].expiresAt = NoDate /\ keys[k].status # "expired")
            => keys'[k].status # "expired"]_vars

\* C24: after any sequence of recordActivation calls on a key, its
\* activationHistory holds at most 100 entries, and they are the most recent
\* min(n, 100) of the n recorded entries, in the order they were recorded.
C24_HistoryKeepsLastHundred ==
  rec.pc = "loaded" =>
    LET n == Len(rec.recorded)
        m == IF n < 100 THEN n ELSE 100
    IN /\ Len(rec.doc.history) <= 100
       /\ rec.doc.history = [i \in 1..m |-> rec.recorded[n - m + i]]

\* calls were made on a document that held 100 entries, and the oldest
\* entries are gone
C24_Witness ==
  /\ rec.pc = "loaded"
  /\ Len(rec.recorded) = 100 + MaxRecorded
  /\ rec.calls = MaxRecorded
  /\ Len(rec.doc.history) = 100
  /\ rec.doc.history[100] = rec.recorded[100 + MaxRecorded]

\* C25: SandboxExecute is reachable: of the environments an untampered
\* loader can be loaded in, at least one lets validateAndExecute, called
\* once with a well-formed key that the server accepts, pass the integrity
\* and anti-debug checks, complete the handshake and execute the payload,
\* returning true.
C25_SandboxExecuteReachable ==
  (trial.pc = "trying" /\ trial.next = NumTrials) =>
    \E k \in 1..Len(trial.results) :
      trial.results[k].phase = "execute" /\ trial.results[k].result = "true"

\* C26: a key whose restrictions list allowed origins is never answered
\* valid:true for a request whose origin (IP) is not in the list.
C26_UnlistedOriginNeverValid ==
  \A r \in Reqs :
    (IsValidTrue(r) /\ req[r].key # Null /\ req[r].read.allowedIPs # {})
      => req[r].hdr.ip \in req[r].read.allowedIPs

\* C27: the counter compared against maxActivations counts successful
\* activations only: it equals the number of successful validations on
\* record, and a rejected validation leaves it as it was.
C27_CounterCountsSuccessesOnly ==
  \A k \in KeyIds : keys[k].totalActivations = Successes(keys[k].history)

\* C28: a validation request rejected for missing headers, for an unknown or
\* inactive project, or for an unknown key changes no key document and no
\* project document; the step that rejects it appends one event for the
\* request to the audit log and changes nothing else.
C28_EarlyRejectionsChangeNoRecord ==
  [][\A r \in Reqs :
       (/\ req[r].pc # "done"
        /\ req'[r].pc = "done"
        /\ ~req'[r].resp.body.valid
        /\ req'[r].resp.body.error \in
             {"Missing required headers", "Project not found", "Invalid key"})
         => /\ keys' = keys
            /\ projects' = projects
            /\ Len(analytics') = Len(analytics) + 1
            /\ SubSeq(analytics', 1, Len(analytics)) = analytics
            /\ analytics'[Len(analytics')].req = r
            /\ analytics'[Len(analytics')].type = "error"]_vars

\* requests were rejected for an unknown key and for an inactive project,
\* each with its event in the audit log
C28_Witness ==
  \E r, q \in Reqs :
    /\ Rejected(r) /\ ErrorOf(r) = "Invalid key" /\ EventsOf(r) # {}
    /\ Rejected(q) /\ ErrorOf(q) = "Project not found" /\ EventsOf(q) # {}

\* C29: in a loader generated with loader obfuscation, every inserted decoy
\* call (to _dummy1, _dummy2, _dummy3) comes after the inserted definitions
\* of the decoy functions.
C29_DecoyCallsHaveDefinitions ==
  (gen.pc = "generated" /\ gen.options.obfuscateLoader) =>
    LET loader == gen.out.loader
    IN \A i \in 1..Len(loader) :
         loader[i] \in {DUMMY_CALL, DUMMY_CALL + 1, DUMMY_CALL + 2}
           => \E j \in 1..(i - 1) : loader[j] = DUMMY_FUNCS

\* C30: when the stack machine has run over the instructions emitted for a
\* unit, it has called print with the value of e exactly once for each line
\* print(e), in source order (each call took the callee loaded for it and
\* its one argument), and execute has returned with pc past the last
\* instruction.
C30_MachineCallsPrintInOrder ==
  obf.pc \in {"returned", "raised"} =>
    /\ obf.pc = "returned"
    /\ obf.vm.calls = CallsOfUnit(obf.source)
    /\ obf.vm.pc = Len(obf.vm.instructions) + 1

====
